---- MODULE Spec2Model ----
(***************************************************************************)
(* Fast TArray replication (FFastArraySerializer): a sender collection,    *)
(* the base states it publishes, the deltas it writes, and a receiver      *)
(* collection that reads deltas and reconciles itself.                     *)
(***************************************************************************)
EXTENDS Integers, Sequences, FiniteSets, TLC

\* ------------------------------------------------------------------ bounds

\* Largest number of records application code keeps in the sender's Items.
MaxItems == 3
\* The sender stops marking once its ArrayReplicationKey reaches this value.
MaxArrayKey == 2
\* Largest number of deltas the sender writes.
MaxWrites == 2
\* Largest number of reads the receiver performs.
MaxReads == 3
\* Largest number of arbitrary deltas the receiver reads from the network.
MaxWireReads == 2
\* Largest number of deltas read by a receiver that is polled.
MaxPollReads == 1
\* Longest array saved with SafeNetSerializeTArray_Default.
MaxSeqLen == 3
\* Largest of the small MaxNum arguments of SafeNetSerializeTArray_Default.
MaxMaxNum == 4
\* Largest of the small MaxValue arguments of WriteFixedCompressedFloat.
MaxFixedValue == 9
\* Largest of the small NumBits arguments of WriteFixedCompressedFloat.
MaxFixedBits == 4
\* Largest number of records in a collection written once on its own.
MaxWriteItems == 3
\* Largest number of pairs in the old base state of such a write.
MaxOldPairs == 3
MaxLossItems == 2
MaxLossKey == 3
MaxLossWrites == 3

\* --------------------------------------------------------------- constants

INDEX_NONE == -1

\* The two configured limits (console variables of the engine).
MaxNumberOfAllowedChangesPerUpdate == 2
MaxNumberOfAllowedDeletionsPerUpdate == 2

\* int32 arithmetic: ++ on a 32-bit signed counter.
Inc32(x) == IF x = 2147483647 THEN (-2147483647) - 1 ELSE x + 1

\* ------------------------------------------------------------- containers

\* TMap<int32, ...> as a function with a finite domain.
EmptyMap == [x \in {} |-> 0]
MapAdd(m, k, v) == [x \in (DOMAIN m) \cup {k} |-> IF x = k THEN v ELSE m[x]]
MapRemove(m, k) == [x \in (DOMAIN m) \ {k} |-> m[x]]
MapNum(m) == Cardinality(DOMAIN m)

\* FNetFastTArrayBaseState::IDToCLMap keeps its pairs in insertion order (the
\* order its iterator walks them); Add on a present key replaces the value.
RECURSIVE PairsFind(_, _)
PairsFind(pairs, id) ==
    IF pairs = <<>> THEN 0
    ELSE IF pairs[Len(pairs)].ID = id THEN Len(pairs)
    ELSE PairsFind(SubSeq(pairs, 1, Len(pairs) - 1), id)
PairsContains(pairs, id) == PairsFind(pairs, id) # 0
PairsAdd(pairs, id, key) ==
    IF PairsContains(pairs, id)
    THEN [pairs EXCEPT ![PairsFind(pairs, id)] = [ID |-> id, Key |-> key]]
    ELSE Append(pairs, [ID |-> id, Key |-> key])

SeqContains(s, x) == \E i \in 1..Len(s) : s[i] = x

\* TArray::RemoveAtSwap(i): the last element moves into the gap (1-based i).
RemoveAtSwap(s, i) ==
    IF i = Len(s) THEN SubSeq(s, 1, Len(s) - 1)
    ELSE [j \in 1..(Len(s) - 1) |-> IF j = i THEN s[Len(s)] ELSE s[j]]

\* TArray::RemoveAt(i): order preserving.
RemoveAt(s, i) == SubSeq(s, 1, i - 1) \o SubSeq(s, i + 1, Len(s))

\* TArray<int32>::Sort(): ascending.
RECURSIVE SortInsert(_, _)
SortInsert(s, x) ==
    IF s = <<>> THEN <<x>>
    ELSE IF x >= s[Len(s)] THEN Append(s, x)
    ELSE Append(SortInsert(SubSeq(s, 1, Len(s) - 1), x), s[Len(s)])
RECURSIVE Sort(_)
Sort(s) == IF s = <<>> THEN <<>> ELSE SortInsert(Sort(SubSeq(s, 1, Len(s) - 1)), s[Len(s)])

\* ------------------------------------------------------------------ records

\* FFastArraySerializerItem() : all three fields INDEX_NONE.
NewItem == [ReplicationID |-> INDEX_NONE, ReplicationKey |-> INDEX_NONE,
            MostRecentArrayReplicationKey |-> INDEX_NONE]

\* EFastArraySerializerDeltaFlags, as the set of flags that are set.
HasBeenSerialized == "HasBeenSerialized"
HasDeltaBeenRequested == "HasDeltaBeenRequested"
IsUsingDeltaSerialization == "IsUsingDeltaSerialization"

\* SetDeltaSerializationEnabled without the test of HasBeenSerialized.
SetDeltaSerializationEnabledAnyTime(flags, bEnabled) ==
    IF bEnabled THEN flags \cup {"HasDeltaBeenRequested"} ELSE flags \ {"HasDeltaBeenRequested"}

\* SetDeltaSerializationEnabled(bEnabled) on a flag set.
SetDeltaSerializationEnabled(flags, bEnabled) ==
    IF HasBeenSerialized \notin flags
    THEN IF bEnabled THEN flags \cup {HasDeltaBeenRequested}
         ELSE flags \ {HasDeltaBeenRequested}
    ELSE flags

\* FFastArraySerializer() together with its (empty) Items array.
NewSerializer ==
    [Items |-> <<>>,
     ItemMap |-> EmptyMap,
     IDCounter |-> 0,
     ArrayReplicationKey |-> 0,
     GuidReferencesMap |-> EmptyMap,
     CachedNumItems |-> INDEX_NONE,
     CachedNumItemsToConsiderForWriting |-> INDEX_NONE,
     DeltaFlags |-> SetDeltaSerializationEnabled({}, TRUE),
     \* The derived type's PreReplicatedRemove override: whether it adds a
     \* local record to Items (the default override does nothing).
     bCallbackAdds |-> FALSE]

\* FNetFastTArrayBaseState()
NewBaseState == [IDToCLMap |-> <<>>, ArrayReplicationKey |-> INDEX_NONE]

\* ------------------------------------------------------------ dirty marking

\* IncrementArrayReplicationKey without the step over INDEX_NONE.
IncrementArrayReplicationKeyNoSkip(k) == Inc32(k)

IncrementArrayReplicationKey(k) ==
    IF Inc32(k) = INDEX_NONE THEN Inc32(Inc32(k)) ELSE Inc32(k)

\* MarkArrayDirty without the reset of ItemMap.
MarkArrayDirtyKeepsItemMap(ser) ==
    [ser EXCEPT !.ArrayReplicationKey = IncrementArrayReplicationKey(ser.ArrayReplicationKey),
                !.CachedNumItems = INDEX_NONE,
                !.CachedNumItemsToConsiderForWriting = INDEX_NONE]

MarkArrayDirty(ser) ==
    [ser EXCEPT !.ItemMap = EmptyMap,
                !.ArrayReplicationKey = IncrementArrayReplicationKey(ser.ArrayReplicationKey),
                !.CachedNumItems = INDEX_NONE,
                !.CachedNumItemsToConsiderForWriting = INDEX_NONE]

\* MarkItemDirty without the increment of the record's ReplicationKey.
MarkItemDirtyKeyKept(ser, i) ==
    LET Item == ser.Items[i]
        fresh == Item.ReplicationID = INDEX_NONE
        counter1 == Inc32(ser.IDCounter)
        counter2 == IF counter1 = INDEX_NONE THEN Inc32(counter1) ELSE counter1
        Item1 == IF fresh THEN [Item EXCEPT !.ReplicationID = counter1] ELSE Item
        ser1 == [ser EXCEPT !.Items[i] = Item1,
                            !.IDCounter = IF fresh THEN counter2 ELSE ser.IDCounter]
    IN  MarkArrayDirty(ser1)

\* MarkItemDirty without the test for an unassigned ReplicationID.
MarkItemDirtyAlwaysNewId(ser, i) ==
    LET Item == ser.Items[i]
        counter1 == Inc32(ser.IDCounter)
        counter2 == IF counter1 = INDEX_NONE THEN Inc32(counter1) ELSE counter1
        Item2 == [Item EXCEPT !.ReplicationID = counter1,
                              !.ReplicationKey = Inc32(Item.ReplicationKey)]
    IN  MarkArrayDirty([ser EXCEPT !.Items[i] = Item2, !.IDCounter = counter2])

\* MarkItemDirty(Items[i]) (1-based i).
MarkItemDirty(ser, i) ==
    LET Item == ser.Items[i]
        fresh == Item.ReplicationID = INDEX_NONE
        counter1 == Inc32(ser.IDCounter)
        counter2 == IF counter1 = INDEX_NONE THEN Inc32(counter1) ELSE counter1
        Item1 == IF fresh THEN [Item EXCEPT !.ReplicationID = counter1] ELSE Item
        Item2 == [Item1 EXCEPT !.ReplicationKey = Inc32(Item1.ReplicationKey)]
        ser1 == [ser EXCEPT !.Items[i] = Item2,
                            !.IDCounter = IF fresh THEN counter2 ELSE ser.IDCounter]
    IN  MarkArrayDirty(ser1)

\* --------------------------------------------------------------- write path

\* ShouldWriteFastArrayItem without the test of the record's id.
ShouldWriteFastArrayItemAlways(Item, bIsWritingOnClient) == TRUE

ShouldWriteFastArrayItem(Item, bIsWritingOnClient) ==
    (~bIsWritingOnClient) \/ Item.ReplicationID # INDEX_NONE

\* CalcNumItemsForConsideration counting every record.
CalcNumItemsAll(Items, bIsWritingOnClient) == Len(Items)

CalcNumItemsForConsideration(Items, bIsWritingOnClient) ==
    Cardinality({i \in 1..Len(Items) : ShouldWriteFastArrayItem(Items[i], bIsWritingOnClient)})

\* The branch of ConditionalCreateNewDeltaState taken when the keys are equal:
\* the item count caches are refreshed if necessary.
RefreshCachedCounts(ser, bIsWritingOnClient) ==
    IF \/ ser.CachedNumItems = INDEX_NONE
       \/ ser.CachedNumItems # Len(ser.Items)
       \/ ser.CachedNumItemsToConsiderForWriting = INDEX_NONE
    THEN [ser EXCEPT !.CachedNumItems = Len(ser.Items),
                     !.CachedNumItemsToConsiderForWriting =
                         CalcNumItemsForConsideration(ser.Items, bIsWritingOnClient)]
    ELSE ser

\* ConditionalCreateNewDeltaState without the comparison of the keys.
ConditionalCreateNewDeltaStateAlways(ser, BaseReplicationKey) == TRUE

\* ConditionalCreateNewDeltaState: TRUE when the keys differ and a new state
\* has to be created.
ConditionalCreateNewDeltaState(ser, BaseReplicationKey) ==
    ser.ArrayReplicationKey # BaseReplicationKey

\* The walk of BuildChangedAndDeletedBuffers over Items[i..]; acc carries the
\* serializer (MarkItemDirty may act on it), NewIDToKeyMap, ChangedElements
\* and DeleteCount.
RECURSIVE ChangedWalk(_, _, _, _, _)
ChangedWalk(acc, i, OldMap, bHasOldMap, bIsWritingOnClient) ==
    IF i > Len(acc.ser.Items) THEN acc
    ELSE IF ~ShouldWriteFastArrayItem(acc.ser.Items[i], bIsWritingOnClient)
    THEN ChangedWalk(acc, i + 1, OldMap, bHasOldMap, bIsWritingOnClient)
    ELSE
      LET ser1 == IF acc.ser.Items[i].ReplicationID = INDEX_NONE
                  THEN MarkItemDirty(acc.ser, i) ELSE acc.ser
          Item == ser1.Items[i]
          NewMap == PairsAdd(acc.NewMap, Item.ReplicationID, Item.ReplicationKey)
          old == IF bHasOldMap THEN PairsFind(OldMap, Item.ReplicationID) ELSE 0
          pair == [Idx |-> i, ID |-> Item.ReplicationID]
          acc1 ==
            IF old # 0
            THEN IF OldMap[old].Key = Item.ReplicationKey
                 THEN [acc EXCEPT !.ser = ser1, !.NewMap = NewMap]
                 ELSE [acc EXCEPT !.ser = ser1, !.NewMap = NewMap,
                                  !.Changed = Append(acc.Changed, pair)]
            ELSE [acc EXCEPT !.ser = ser1, !.NewMap = NewMap,
                             !.Changed = Append(acc.Changed, pair),
                             !.DeleteCount = acc.DeleteCount + 1]
      IN  CHOOSE r \in {ChangedWalk(a, i + 1, OldMap, bHasOldMap, bIsWritingOnClient) :
                             a \in {acc1}} : TRUE

\* The second loop with the DeleteCount test made before the id is added.
RECURSIVE DeletedWalkBreakFirst(_, _, _, _)
DeletedWalkBreakFirst(OldMap, j, NewMap, DeleteCount) ==
    IF j > Len(OldMap) THEN <<>>
    ELSE IF ~PairsContains(NewMap, OldMap[j].ID)
    THEN IF DeleteCount - 1 <= 0 THEN <<>>
         ELSE <<OldMap[j].ID>> \o DeletedWalkBreakFirst(OldMap, j + 1, NewMap, DeleteCount - 1)
    ELSE DeletedWalkBreakFirst(OldMap, j + 1, NewMap, DeleteCount)

\* The second loop of BuildChangedAndDeletedBuffers: ids of OldMap[j..] that
\* NewMap lacks, in OldMap's iteration order, until DeleteCount runs out.
RECURSIVE DeletedWalk(_, _, _, _)
DeletedWalk(OldMap, j, NewMap, DeleteCount) ==
    IF j > Len(OldMap) THEN <<>>
    ELSE IF ~PairsContains(NewMap, OldMap[j].ID)
    THEN IF DeleteCount - 1 <= 0 THEN <<OldMap[j].ID>>
         ELSE <<OldMap[j].ID>> \o DeletedWalk(OldMap, j + 1, NewMap, DeleteCount - 1)
    ELSE DeletedWalk(OldMap, j + 1, NewMap, DeleteCount)

BuildChangedAndDeletedBuffers(ser, OldMap, bHasOldMap, bIsWritingOnClient) ==
    LET NumConsideredItems == CalcNumItemsForConsideration(ser.Items, bIsWritingOnClient)
        start == [ser |-> ser, NewMap |-> <<>>, Changed |-> <<>>,
                  DeleteCount |-> (IF bHasOldMap THEN Len(OldMap) ELSE 0)
                                  - NumConsideredItems]
    IN  CHOOSE r \in
            {[ser |-> walked.ser,
              NewMap |-> walked.NewMap,
              Changed |-> walked.Changed,
              Deleted |-> IF walked.DeleteCount > 0 /\ bHasOldMap
                          THEN DeletedWalk(OldMap, 1, walked.NewMap, walked.DeleteCount)
                          ELSE <<>>] :
             walked \in {ChangedWalk(start, 1, OldMap, bHasOldMap, bIsWritingOnClient)}} : TRUE

\* The first-serialization block of FastArrayDeltaSerialize.
FirstSerialization(flags, bSupportsFastArrayDeltaStructSerialization) ==
    IF HasBeenSerialized \notin flags
    THEN IF bSupportsFastArrayDeltaStructSerialization /\ HasDeltaBeenRequested \in flags
         THEN flags \cup {HasBeenSerialized, IsUsingDeltaSerialization}
         ELSE flags \cup {HasBeenSerialized}
    ELSE flags

\* What NetSerializeStruct writes for a record: the identifiers its content
\* references.  Records of this model reference none.
ItemPayload(Item) == {}

\* WriteDeltaHeader and the changed-element loop: the bits put on the wire.
\* The counts written are the lengths of the two lists; exceeding the limits
\* is logged only.
WriteDelta(Header, Deleted, Changed, Items) ==
    [ArrayReplicationKey |-> Header.ArrayReplicationKey,
     BaseReplicationKey |-> Header.BaseReplicationKey,
     Deleted |-> Deleted,
     Changed |-> [n \in 1..Len(Changed) |->
                    [ID |-> Changed[n].ID, Payload |-> ItemPayload(Items[Changed[n].Idx])]]]

\* FastArrayDeltaSerialize with Parms.Writer set.  OldState is the base state
\* handed in (bHasOldState FALSE: Parms.OldState is null).  The result names
\* the serializer afterwards, whether a new state object was created, that
\* state, whether something was written (the return value) and the delta.
WriteFastArray(ser, OldState, bHasOldState, bIsWritingOnClient) ==
    LET ser0 == [ser EXCEPT !.DeltaFlags = FirstSerialization(ser.DeltaFlags, FALSE)]
        BaseReplicationKey == IF bHasOldState THEN OldState.ArrayReplicationKey ELSE INDEX_NONE
    IN  IF bHasOldState /\ ~ConditionalCreateNewDeltaState(ser0, BaseReplicationKey)
        THEN [ser |-> RefreshCachedCounts(ser0, bIsWritingOnClient),
              bNewState |-> FALSE, NewState |-> OldState,
              bWrote |-> FALSE, Delta |-> <<>>]
        ELSE
          LET Header == [ArrayReplicationKey |-> ser0.ArrayReplicationKey,
                         BaseReplicationKey |-> BaseReplicationKey]
          IN  CHOOSE r \in
                  {[ser |-> built.ser,
                    bNewState |-> TRUE,
                    NewState |-> [IDToCLMap |-> built.NewMap,
                                  ArrayReplicationKey |-> built.ser.ArrayReplicationKey],
                    bWrote |-> TRUE,
                    Delta |-> WriteDelta(Header, built.Deleted, built.Changed,
                                         built.ser.Items)] :
                   built \in {BuildChangedAndDeletedBuffers(
                                  ser0, IF bHasOldState THEN OldState.IDToCLMap ELSE <<>>,
                                  bHasOldState, bIsWritingOnClient)}} : TRUE

\* ---------------------------------------------------------------- read path

\* Identifiers a payload may reference; DynamicGUIDs are those for which
\* FNetworkGUID::IsDynamic() holds.
NetworkGUIDs == {"dyn", "stat"}
DynamicGUIDs == {"dyn"}

\* What the package map reports after NetSerializeStruct read a payload while
\* the identifiers in mapped are resolvable.
GetTrackedUnmappedGuids(Payload, mapped) == Payload \ mapped
GetTrackedDynamicMappedGuids(Payload, mapped) == (Payload \cap mapped) \cap DynamicGUIDs

\* The loop of ConditionalRebuildItemMap on the reading side over Items[i..].
RECURSIVE RebuildItemMap(_, _, _)
RebuildItemMap(Items, i, map) ==
    IF i > Len(Items) THEN map
    ELSE IF Items[i].ReplicationID = INDEX_NONE
    THEN RebuildItemMap(Items, i + 1, map)
    ELSE RebuildItemMap(Items, i + 1, MapAdd(map, Items[i].ReplicationID, i))

\* ConditionalRebuildItemMap when reading or updating unmapped objects.
ConditionalRebuildItemMapNever(ser) == ser
ConditionalRebuildItemMap(ser) ==
    IF MapNum(ser.ItemMap) # Len(ser.Items)
    THEN [ser EXCEPT !.ItemMap = RebuildItemMap(ser.Items, 1, EmptyMap)]
    ELSE ser

\* ReadDeltaHeader, the two limit checks.
HeaderWithinLimitsDeletionsOnly(Delta) ==
    ~(Len(Delta.Deleted) > MaxNumberOfAllowedDeletionsPerUpdate)
HeaderWithinLimits(Delta) ==
    /\ ~(Len(Delta.Deleted) > MaxNumberOfAllowedDeletionsPerUpdate)
    /\ ~(Len(Delta.Changed) > MaxNumberOfAllowedChangesPerUpdate)

\* ReadDeltaHeader, the deleted-element loop over Deleted[n..]: indices of
\* the ids ItemMap knows, in wire order.
RECURSIVE ReadDeletedIndices(_, _, _)
ReadDeletedIndices(Deleted, n, ItemMap) ==
    IF n > Len(Deleted) THEN <<>>
    ELSE IF Deleted[n] \in DOMAIN ItemMap
    THEN <<ItemMap[Deleted[n]]>> \o ReadDeletedIndices(Deleted, n + 1, ItemMap)
    ELSE ReadDeletedIndices(Deleted, n + 1, ItemMap)

\* The key updates of a changed entry without the ReplicationKey increment.
ReceiveKeysNoIncrement(Item, ArrayReplicationKey) ==
    [Item EXCEPT !.MostRecentArrayReplicationKey = ArrayReplicationKey]

\* The two key updates every changed entry makes to its record.
ReceiveKeys(Item, ArrayReplicationKey) ==
    [Item EXCEPT !.MostRecentArrayReplicationKey = ArrayReplicationKey,
                 !.ReplicationKey = Inc32(Item.ReplicationKey)]

\* One pass of the changed-element loop that never stops tracking a record.
ReadChangedElementKeepsTracking(acc, e, ArrayReplicationKey, bReaderError, mapped) ==
    LET ser == acc.ser
        bNew == e.ID \notin DOMAIN ser.ItemMap
        Items1 == IF bNew THEN Append(ser.Items, [NewItem EXCEPT !.ReplicationID = e.ID])
                  ELSE ser.Items
        ElementIndex == IF bNew THEN Len(Items1) ELSE ser.ItemMap[e.ID]
        ItemMap1 == IF bNew THEN MapAdd(ser.ItemMap, e.ID, ElementIndex) ELSE ser.ItemMap
        Items2 == [Items1 EXCEPT ![ElementIndex] = ReceiveKeys(@, ArrayReplicationKey)]
        Unmapped == e.Payload \ mapped
        MappedDynamic == (e.Payload \cap mapped) \cap DynamicGUIDs
        GuidMap1 ==
            IF bReaderError \/ (Unmapped = {} /\ MappedDynamic = {})
            THEN ser.GuidReferencesMap
            ELSE MapAdd(ser.GuidReferencesMap, e.ID,
                        [UnmappedGUIDs |-> Unmapped, MappedDynamicGUIDs |-> MappedDynamic,
                         Buffer |-> e.Payload])
    IN  [ser |-> [ser EXCEPT !.Items = Items2, !.ItemMap = ItemMap1,
                             !.GuidReferencesMap = GuidMap1],
         ChangedIndices |-> IF bNew THEN acc.ChangedIndices
                            ELSE Append(acc.ChangedIndices, ElementIndex),
         AddedIndices |-> IF bNew THEN Append(acc.AddedIndices, ElementIndex)
                          ELSE acc.AddedIndices,
         NumRead |-> acc.NumRead + 1,
         bError |-> bReaderError]

\* One pass of the changed-element loop for entry e; bReaderError says that
\* NetSerializeStruct left the reader in error on this entry.
ReadChangedElement(acc, e, ArrayReplicationKey, bReaderError, mapped) ==
    LET ser == acc.ser
        bNew == e.ID \notin DOMAIN ser.ItemMap
        Items1 == IF bNew THEN Append(ser.Items, [NewItem EXCEPT !.ReplicationID = e.ID])
                  ELSE ser.Items
        ElementIndex == IF bNew THEN Len(Items1) ELSE ser.ItemMap[e.ID]
        ItemMap1 == IF bNew THEN MapAdd(ser.ItemMap, e.ID, ElementIndex) ELSE ser.ItemMap
        Items2 == [Items1 EXCEPT ![ElementIndex] = ReceiveKeys(@, ArrayReplicationKey)]
        Unmapped == GetTrackedUnmappedGuids(e.Payload, mapped)
        MappedDynamic == GetTrackedDynamicMappedGuids(e.Payload, mapped)
        GuidMap1 ==
            IF bReaderError THEN ser.GuidReferencesMap
            ELSE IF Unmapped # {} \/ MappedDynamic # {}
            THEN MapAdd(ser.GuidReferencesMap, e.ID,
                        [UnmappedGUIDs |-> Unmapped, MappedDynamicGUIDs |-> MappedDynamic,
                         Buffer |-> e.Payload])
            ELSE MapRemove(ser.GuidReferencesMap, e.ID)
    IN  [ser |-> [ser EXCEPT !.Items = Items2, !.ItemMap = ItemMap1,
                             !.GuidReferencesMap = GuidMap1],
         ChangedIndices |-> IF bNew THEN acc.ChangedIndices
                            ELSE Append(acc.ChangedIndices, ElementIndex),
         AddedIndices |-> IF bNew THEN Append(acc.AddedIndices, ElementIndex)
                          ELSE acc.AddedIndices,
         NumRead |-> acc.NumRead + 1,
         bError |-> bReaderError]

\* The changed-element loop without the return on a reader error.
RECURSIVE ReadChangedElementsNoReturn(_, _, _, _, _, _)
ReadChangedElementsNoReturn(acc, Changed, n, ArrayReplicationKey, ErrorAt, mapped) ==
    IF n > Len(Changed) THEN acc
    ELSE ReadChangedElementsNoReturn(
             ReadChangedElement(acc, Changed[n], ArrayReplicationKey, n = ErrorAt, mapped),
             Changed, n + 1, ArrayReplicationKey, ErrorAt, mapped)

\* The changed-element loop over Changed[n..]; it returns at the first entry
\* that leaves the reader in error (entry number ErrorAt, 0 for none).
RECURSIVE ReadChangedElements(_, _, _, _, _, _)
ReadChangedElements(acc, Changed, n, ArrayReplicationKey, ErrorAt, mapped) ==
    IF n > Len(Changed) \/ acc.bError THEN acc
    ELSE ReadChangedElements(
             ReadChangedElement(acc, Changed[n], ArrayReplicationKey, n = ErrorAt, mapped),
             Changed, n + 1, ArrayReplicationKey, ErrorAt, mapped)

\* ------------------------------------------------------------ reconciliation

\* The implicit-delete loop with the two comparisons the wrong way round.
ImplicitDeletesReversed(Items, idx, DeletedIndices, ArrayReplicationKey, BaseReplicationKey) ==
    LET hit == {i \in idx..Len(Items) :
                  /\ Items[i].MostRecentArrayReplicationKey > ArrayReplicationKey
                  /\ Items[i].MostRecentArrayReplicationKey < BaseReplicationKey
                  /\ ~SeqContains(DeletedIndices, i)}
    IN  DeletedIndices \o Sort([n \in 1..Cardinality(hit) |->
                                   CHOOSE i \in hit : Cardinality({j \in hit : j < i}) = n - 1])

\* The implicit-delete loop without the test against the base key.
ImplicitDeletesIgnoringBase(Items, idx, DeletedIndices, ArrayReplicationKey, BaseReplicationKey) ==
    LET hit == {i \in idx..Len(Items) :
                  /\ Items[i].MostRecentArrayReplicationKey < ArrayReplicationKey
                  /\ ~SeqContains(DeletedIndices, i)}
    IN  DeletedIndices \o Sort([n \in 1..Cardinality(hit) |->
                                   CHOOSE i \in hit : Cardinality({j \in hit : j < i}) = n - 1])

\* The implicit-delete loop of PostReceiveCleanup over Items[idx..].
RECURSIVE ImplicitDeletes(_, _, _, _, _)
ImplicitDeletes(Items, idx, DeletedIndices, ArrayReplicationKey, BaseReplicationKey) ==
    IF idx > Len(Items) THEN DeletedIndices
    ELSE IF /\ Items[idx].MostRecentArrayReplicationKey < ArrayReplicationKey
            /\ Items[idx].MostRecentArrayReplicationKey > BaseReplicationKey
            /\ ~SeqContains(DeletedIndices, idx)
    THEN ImplicitDeletes(Items, idx + 1, Append(DeletedIndices, idx),
                         ArrayReplicationKey, BaseReplicationKey)
    ELSE ImplicitDeletes(Items, idx + 1, DeletedIndices,
                         ArrayReplicationKey, BaseReplicationKey)

\* A lifecycle callback invocation, or a physical removal, as the collection's
\* owner observes it.
Event(what, arg) == [what |-> what, arg |-> arg]

\* The per-record callbacks for the indices of a list, in list order; the
\* argument recorded is the record's ReplicationID.
ItemEvents(what, Indices, Items) ==
    [n \in 1..Len(Indices) |-> Event(what, Items[Indices[n]].ReplicationID)]

\* The PreReplicatedRemove loop: indices that are not valid are skipped.
RECURSIVE RemoveEvents(_, _, _)
RemoveEvents(DeletedIndices, n, Items) ==
    IF n > Len(DeletedIndices) THEN <<>>
    ELSE IF DeletedIndices[n] \in 1..Len(Items)
    THEN <<Event("Item.PreReplicatedRemove", Items[DeletedIndices[n]].ReplicationID)>>
         \o RemoveEvents(DeletedIndices, n + 1, Items)
    ELSE RemoveEvents(DeletedIndices, n + 1, Items)

\* GuidMap.Remove for every valid deleted index.
RECURSIVE RemoveGuidReferences(_, _, _, _)
RemoveGuidReferences(GuidMap, DeletedIndices, n, Items) ==
    IF n > Len(DeletedIndices) THEN GuidMap
    ELSE IF DeletedIndices[n] \in 1..Len(Items)
    THEN RemoveGuidReferences(MapRemove(GuidMap, Items[DeletedIndices[n]].ReplicationID),
                              DeletedIndices, n + 1, Items)
    ELSE RemoveGuidReferences(GuidMap, DeletedIndices, n + 1, Items)

\* The callbacks of PostReceiveCleanup in the order it invokes them.
LifecycleCallbacksAddFirst(Items, DeletedIndices, AddedIndices, ChangedIndices, FinalSize) ==
    ItemEvents("Item.PostReplicatedAdd", AddedIndices, Items)
    \o <<Event("PostReplicatedAdd", FinalSize)>>
    \o RemoveEvents(DeletedIndices, 1, Items)
    \o <<Event("PreReplicatedRemove", FinalSize)>>
    \o ItemEvents("Item.PostReplicatedChange", ChangedIndices, Items)
    \o <<Event("PostReplicatedChange", FinalSize)>>
LifecycleCallbacks(Items, DeletedIndices, AddedIndices, ChangedIndices, FinalSize) ==
    RemoveEvents(DeletedIndices, 1, Items)
    \o <<Event("PreReplicatedRemove", FinalSize)>>
    \o ItemEvents("Item.PostReplicatedAdd", AddedIndices, Items)
    \o <<Event("PostReplicatedAdd", FinalSize)>>
    \o ItemEvents("Item.PostReplicatedChange", ChangedIndices, Items)
    \o <<Event("PostReplicatedChange", FinalSize)>>

\* The removal loop: the sorted indices from last to first (position i down
\* to 1), each removed by RemoveAtSwap when still valid.  The result carries
\* the array and the removals performed.
RECURSIVE RemoveDeleted(_, _, _)
RemoveDeleted(acc, Sorted, i) ==
    IF i < 1 THEN acc
    ELSE IF Sorted[i] \in 1..Len(acc.Items)
    THEN RemoveDeleted([Items |-> RemoveAtSwap(acc.Items, Sorted[i]),
                        Log |-> Append(acc.Log, Event("Items.RemoveAtSwap", Sorted[i]))],
                       Sorted, i - 1)
    ELSE RemoveDeleted(acc, Sorted, i - 1)

\* ArraySerializer.PreReplicatedRemove(DeletedIndices, FinalSize) as the
\* derived type overrides it: Items afterwards.  A record that client code
\* adds locally has no ReplicationID.
OwnerPreReplicatedRemove(ser) ==
    IF ser.bCallbackAdds THEN Append(ser.Items, NewItem) ELSE ser.Items

\* PostReceiveCleanup.  A change of Items.Num() during the callbacks is
\* logged and nothing else.
PostReceiveCleanup(ser, Header, ExplicitDeletedIndices, ChangedIndices, AddedIndices, bInternalAck) ==
    LET DeletedIndices ==
            IF ~bInternalAck
            THEN ImplicitDeletes(ser.Items, 1, ExplicitDeletedIndices,
                                 Header.ArrayReplicationKey, Header.BaseReplicationKey)
            ELSE ExplicitDeletedIndices
        Key == IF Len(DeletedIndices) > 0 \/ Header.NumChanged > 0
               THEN IncrementArrayReplicationKey(ser.ArrayReplicationKey)
               ELSE ser.ArrayReplicationKey
        PreRemoveSize == Len(ser.Items)
        FinalSize == PreRemoveSize - Len(DeletedIndices)
        Callbacks == LifecycleCallbacks(ser.Items, DeletedIndices, AddedIndices,
                                        ChangedIndices, FinalSize)
        ItemsAfterCallbacks == OwnerPreReplicatedRemove(ser)
        removed == IF Len(DeletedIndices) > 0
                   THEN RemoveDeleted([Items |-> ItemsAfterCallbacks, Log |-> Callbacks],
                                      Sort(DeletedIndices), Len(DeletedIndices))
                   ELSE [Items |-> ItemsAfterCallbacks, Log |-> Callbacks]
    IN  [ser |-> [ser EXCEPT
                    !.Items = removed.Items,
                    !.ItemMap = IF Len(DeletedIndices) > 0 THEN EmptyMap ELSE ser.ItemMap,
                    !.ArrayReplicationKey = Key,
                    !.GuidReferencesMap =
                        RemoveGuidReferences(ser.GuidReferencesMap, DeletedIndices, 1, ser.Items)],
         Log |-> removed.Log]

\* FastArrayDeltaSerialize with Parms.Reader set: the serializer afterwards,
\* the return value, whether the reader is in error, how many changed entries
\* were read, and what the owner observed.
ReadFastArray(ser, Delta, ErrorAt, bInternalAck, mapped) ==
    LET ser0 == ConditionalRebuildItemMap(ser)
        ser1 == [ser0 EXCEPT !.DeltaFlags = FirstSerialization(ser0.DeltaFlags, FALSE)]
    IN  IF ~HeaderWithinLimits(Delta)
        THEN [ser |-> ser1, bResult |-> FALSE, bReaderError |-> TRUE, NumRead |-> 0,
              Log |-> <<>>]
        ELSE
          LET Header == [ArrayReplicationKey |-> Delta.ArrayReplicationKey,
                         BaseReplicationKey |-> Delta.BaseReplicationKey,
                         NumChanged |-> Len(Delta.Changed)]
              DeletedIndices == ReadDeletedIndices(Delta.Deleted, 1, ser1.ItemMap)
              read == ReadChangedElements(
                          [ser |-> ser1, ChangedIndices |-> <<>>, AddedIndices |-> <<>>,
                           NumRead |-> 0, bError |-> FALSE],
                          Delta.Changed, 1, Delta.ArrayReplicationKey, ErrorAt, mapped)
          IN  IF read.bError
              THEN [ser |-> read.ser, bResult |-> FALSE, bReaderError |-> TRUE,
                    NumRead |-> read.NumRead, Log |-> <<>>]
              ELSE
                LET done == PostReceiveCleanup(read.ser, Header, DeletedIndices,
                                               read.ChangedIndices, read.AddedIndices,
                                               bInternalAck)
                IN  [ser |-> done.ser, bResult |-> TRUE, bReaderError |-> FALSE,
                     NumRead |-> read.NumRead, Log |-> done.Log]

\* -------------------------------------------------- update unmapped objects

\* The keys of a map as the iterator walks them, here in ascending order (each
\* pass of the loop touches only its own entry and its own record).
RECURSIVE KeysOf(_)
KeysOf(S) ==
    IF S = {} THEN <<>>
    ELSE LET m == CHOOSE x \in S : \A y \in S : x <= y
         IN  <<m>> \o KeysOf(S \ {m})

\* The unmapped-guid loop finding no object for any guid.
LoadedGUIDsNone(UnmappedGUIDs, mapped, broken) == {}

\* The unmapped-guid loop: the guids that are not broken and for which
\* GetObjectFromNetGUID returns an object.
LoadedGUIDs(UnmappedGUIDs, mapped, broken) == (UnmappedGUIDs \ broken) \cap mapped

\* The loaded guids moved to MappedDynamicGUIDs whatever their kind.
MovedToMappedAll(Loaded) == Loaded

\* The loaded guids moved back to MappedDynamicGUIDs: the dynamic ones.
MovedToMappedDynamic(Loaded) == Loaded \cap DynamicGUIDs

\* One pass of the loop over GuidReferencesMap, for the entry of ElementID.
UpdateUnmappedEntry(acc, ElementID, mapped, broken) ==
    LET ser == acc.ser
        GuidReferences == ser.GuidReferencesMap[ElementID]
    IN  IF \/ (GuidReferences.UnmappedGUIDs = {} /\ GuidReferences.MappedDynamicGUIDs = {})
           \/ ElementID \notin DOMAIN ser.ItemMap
        THEN [acc EXCEPT !.ser.GuidReferencesMap = MapRemove(@, ElementID)]
        ELSE
          LET Loaded == LoadedGUIDs(GuidReferences.UnmappedGUIDs, mapped, broken)
              Unmapped1 == (GuidReferences.UnmappedGUIDs \ broken) \ Loaded
              MappedDynamic1 == GuidReferences.MappedDynamicGUIDs
                                    \cup MovedToMappedDynamic(Loaded)
              bMappedSomeGUIDs == Loaded # {}
              Log1 == IF bMappedSomeGUIDs
                      THEN (IF acc.bCalledPreNetReceive THEN <<>>
                            ELSE <<Event("PreNetReceive", 0)>>)
                           \o <<Event("NetSerializeStruct", ElementID),
                                Event("Item.PostReplicatedChange", ElementID)>>
                      ELSE <<>>
              GuidMap1 ==
                  IF Unmapped1 = {} /\ MappedDynamic1 = {}
                  THEN MapRemove(ser.GuidReferencesMap, ElementID)
                  ELSE [ser.GuidReferencesMap EXCEPT
                            ![ElementID].UnmappedGUIDs = Unmapped1,
                            ![ElementID].MappedDynamicGUIDs = MappedDynamic1]
          IN  [ser |-> [ser EXCEPT !.GuidReferencesMap = GuidMap1],
               bOutSomeObjectsWereMapped |-> acc.bOutSomeObjectsWereMapped \/ bMappedSomeGUIDs,
               bCalledPreNetReceive |-> acc.bCalledPreNetReceive \/ bMappedSomeGUIDs,
               Log |-> acc.Log \o Log1]

\* The loop over GuidReferencesMap, for the keys Keys[n..].
RECURSIVE UpdateUnmappedWalk(_, _, _, _, _)
UpdateUnmappedWalk(acc, Keys, n, mapped, broken) ==
    IF n > Len(Keys) THEN acc
    ELSE CHOOSE r \in {UpdateUnmappedWalk(a, Keys, n + 1, mapped, broken) :
                           a \in {UpdateUnmappedEntry(acc, Keys[n], mapped, broken)}} : TRUE

\* FastArrayDeltaSerialize with Parms.bUpdateUnmappedObjects set; the guids in
\* mapped are resolvable, those in broken are reported broken.
UpdateUnmappedObjects(ser, mapped, broken) ==
    LET ser0 == ConditionalRebuildItemMap(ser)
        done == UpdateUnmappedWalk(
                    [ser |-> ser0, bOutSomeObjectsWereMapped |-> FALSE,
                     bCalledPreNetReceive |-> FALSE, Log |-> <<>>],
                    KeysOf(DOMAIN ser0.GuidReferencesMap), 1, mapped, broken)
    IN  [ser |-> done.ser,
         bResult |-> TRUE,
         bOutSomeObjectsWereMapped |-> done.bOutSomeObjectsWereMapped,
         bOutHasMoreUnmapped |-> MapNum(done.ser.GuidReferencesMap) > 0,
         Log |-> done.Log]

\* ------------------------------------------------------- bounded sequences

\* FMath::CeilLogTwo: the least n with 2^n >= x, 0 for x <= 1.
RECURSIVE CeilLogTwo(_)
CeilLogTwo(x) == IF x <= 1 THEN 0 ELSE 1 + CeilLogTwo((x + 1) \div 2)

\* The low n bits of v >= 0, least significant first.
RECURSIVE BitsOf(_, _)
BitsOf(v, n) == IF n = 0 THEN <<>> ELSE <<v % 2>> \o BitsOf(v \div 2, n - 1)

\* The number whose bits, least significant first, are bits (at most 31).
RECURSIVE ValueOf(_)
ValueOf(bits) == IF bits = <<>> THEN 0 ELSE bits[1] + 2 * ValueOf(Tail(bits))

\* The int32 whose low bits are bits and whose other bits are 0: with 32 bits
\* the last one is the sign.
Int32Of(bits) ==
    IF Len(bits) = 32 /\ bits[32] = 1
    THEN (ValueOf(SubSeq(bits, 1, 31)) - 2147483647) - 1
    ELSE ValueOf(bits)

\* A bit archive: saving appends to Bits, loading reads Bits from Pos on.
NewWriter == [bLoading |-> FALSE, Bits |-> <<>>, Pos |-> 0, bError |-> FALSE]
NewReader(Bits) == [bLoading |-> TRUE, Bits |-> Bits, Pos |-> 0, bError |-> FALSE]

\* FArchive::SerializeBits on an int32 that is 0 before a load: a load past
\* the end of the archive sets the error flag and leaves 0.
SerializeBits(Ar, Value, NumBits) ==
    IF Ar.bLoading
    THEN IF Ar.bError \/ Ar.Pos + NumBits > Len(Ar.Bits)
         THEN [Ar |-> [Ar EXCEPT !.bError = TRUE], Value |-> 0]
         ELSE [Ar |-> [Ar EXCEPT !.Pos = @ + NumBits],
               Value |-> Int32Of(SubSeq(Ar.Bits, Ar.Pos + 1, Ar.Pos + NumBits))]
    ELSE [Ar |-> [Ar EXCEPT !.Bits = @ \o BitsOf(Value, NumBits)], Value |-> Value]

\* The elements are uint8: operator<< moves 8 bits.
ElementBits == 8

\* TArray::AddDefaulted(Count) on an empty array. A negative Count fails
\* checkSlow where the build has it and otherwise zeroes memory of a size
\* computed from it; the program ends either way.
AddDefaulted(Count, bCheckSlow) ==
    IF Count >= 0 THEN [Outcome |-> "returned", Array |-> [i \in 1..Count |-> 0]]
    ELSE IF bCheckSlow THEN [Outcome |-> "check failed", Array |-> <<>>]
    ELSE [Outcome |-> "access violation", Array |-> <<>>]

\* The loading side without the clamp.
ClampOnLoadNone(ArrayNum, MaxNum) == ArrayNum

\* The loading side: if (ArrayNum > MaxNum) ArrayNum = MaxNum.
ClampOnLoad(ArrayNum, MaxNum) == IF ArrayNum > MaxNum THEN MaxNum ELSE ArrayNum

\* The saving side without the clamp.
ClampOnSaveNone(ArrayNum, MaxNum) == ArrayNum

\* The saving side: if (ArrayNum > MaxNum) ArrayNum = MaxNum.
ClampOnSave(ArrayNum, MaxNum) == IF ArrayNum > MaxNum THEN MaxNum ELSE ArrayNum

\* SafeNetSerializeTArray_HeaderOnly<MaxNum>.
SafeNetSerializeTArray_HeaderOnly(MaxNum, Ar, Array, bOutSuccess, bCheckSlow) ==
    LET NumBits == CeilLogTwo(MaxNum) + 1
        Num == IF Ar.bLoading THEN 0 ELSE Len(Array)
        ArrayNum1 == IF Ar.bLoading THEN 0 ELSE ClampOnSave(Num, MaxNum)
        bOutSuccess1 == bOutSuccess /\ ~(~Ar.bLoading /\ Num > MaxNum)
        io == SerializeBits(Ar, ArrayNum1, NumBits)
    IN  IF Ar.bLoading
        THEN LET ArrayNum2 == ClampOnLoad(io.Value, MaxNum)
                 added == AddDefaulted(ArrayNum2, bCheckSlow)
             IN  [Ar |-> io.Ar, Array |-> added.Array, ArrayNum |-> ArrayNum2,
                  bOutSuccess |-> bOutSuccess1 /\ ~(io.Value > MaxNum),
                  Outcome |-> added.Outcome]
        ELSE [Ar |-> io.Ar, Array |-> Array, ArrayNum |-> io.Value,
              bOutSuccess |-> bOutSuccess1, Outcome |-> "returned"]

\* The element loop of SafeNetSerializeTArray_Default, from element idx on.
RECURSIVE SerializeElements(_, _, _)
SerializeElements(acc, idx, ArrayNum) ==
    IF ~(idx <= ArrayNum /\ ~acc.Ar.bError) THEN acc
    ELSE LET io == SerializeBits(acc.Ar, acc.Array[idx], ElementBits)
         IN  SerializeElements(
                 [Ar |-> io.Ar,
                  Array |-> IF acc.Ar.bLoading THEN [acc.Array EXCEPT ![idx] = io.Value]
                            ELSE acc.Array],
                 idx + 1, ArrayNum)

\* SafeNetSerializeTArray_Default<MaxNum>.
SafeNetSerializeTArray_Default(MaxNum, Ar, Array, bCheckSlow) ==
    LET h == SafeNetSerializeTArray_HeaderOnly(MaxNum, Ar, Array, TRUE, bCheckSlow)
    IN  IF h.Outcome # "returned"
        THEN [Ar |-> h.Ar, Array |-> h.Array, bResult |-> FALSE, Outcome |-> h.Outcome]
        ELSE LET done == SerializeElements([Ar |-> h.Ar, Array |-> h.Array], 1, h.ArrayNum)
             IN  [Ar |-> done.Ar, Array |-> done.Array,
                  bResult |-> h.bOutSuccess /\ ~done.Ar.bError,
                  Outcome |-> "returned"]

\* ------------------------------------------------------ quantized vectors

\* A float: not-a-number, or the number v. The floats of the model are whole
\* numbers of magnitude below 2^31, which float arithmetic keeps whole.
NaN == [nan |-> TRUE, v |-> 0]
Float(v) == [nan |-> FALSE, v |-> v]

\* FVector::operator*=(ScaleFactor), per component.
ScaleFloat(f, ScaleFactor) == IF f.nan THEN NaN ELSE Float(f.v * ScaleFactor)

\* FVector::ContainsNaN.
ContainsNaN(V) == \E i \in 1..3 : V[i].nan

\* ClampVector per component, for the two limits of WritePackedVector.
ClampFloat(v) ==
    IF v < -1073741824 THEN -1073741824
    ELSE IF v > 1073741760 THEN 1073741760
    ELSE v

Abs(x) == IF x < 0 THEN -x ELSE x
Max3(a, b, c) == IF a >= b /\ a >= c THEN a ELSE IF b >= c THEN b ELSE c
Clamp(x, lo, hi) == IF x < lo THEN lo ELSE IF x > hi THEN hi ELSE x

\* 1 << n for 0 <= n <= 30.
RECURSIVE Shl1(_)
Shl1(n) == IF n = 0 THEN 1 ELSE 2 * Shl1(n - 1)

\* FBitWriter::SerializeInt, the bit loop from Mask on: a bit is written
\* while the value written so far plus Mask is below ValueMax.
RECURSIVE WriteIntBits(_, _, _, _)
WriteIntBits(WriteValue, ValueMax, Mask, NewValue) ==
    IF ~(NewValue + Mask < ValueMax) THEN <<>>
    ELSE IF (WriteValue \div Mask) % 2 = 1
    THEN <<1>> \o WriteIntBits(WriteValue, ValueMax, 2 * Mask, NewValue + Mask)
    ELSE <<0>> \o WriteIntBits(WriteValue, ValueMax, 2 * Mask, NewValue)

\* FBitReader::SerializeInt, the bit loop from Mask on: reading past the end
\* sets the error flag and ends the loop with the value read so far.
RECURSIVE ReadIntBits(_, _, _, _)
ReadIntBits(Ar, ValueMax, Mask, Value) ==
    IF ~(Value + Mask < ValueMax) THEN [Ar |-> Ar, Value |-> Value]
    ELSE IF Ar.Pos >= Len(Ar.Bits) THEN [Ar |-> [Ar EXCEPT !.bError = TRUE], Value |-> Value]
    ELSE ReadIntBits([Ar EXCEPT !.Pos = @ + 1], ValueMax, 2 * Mask,
                     IF Ar.Bits[Ar.Pos + 1] = 1 THEN Value + Mask ELSE Value)

\* FArchive::SerializeInt(Value, ValueMax) on a bit archive. A value of
\* ValueMax or more is written as ValueMax - 1; a reader in error leaves the
\* value as it was.
SerializeInt(Ar, Value, ValueMax) ==
    IF Ar.bLoading
    THEN IF Ar.bError THEN [Ar |-> Ar, Value |-> Value]
         ELSE ReadIntBits(Ar, ValueMax, 1, 0)
    ELSE [Ar |-> [Ar EXCEPT !.Bits = @ \o WriteIntBits(
                         IF Value >= ValueMax THEN ValueMax - 1 ELSE Value, ValueMax, 1, 0)],
          Value |-> Value]

\* uint32 D = IntV + Bias and its clamp: a sum below 0 is a uint32 of 2^31 or
\* more, which is not positive as an int32.
BiasedComponent(IntV, Bias, Max) ==
    LET D == IntV + Bias
    IN  IF D < 0 THEN [D |-> 0, bClamp |-> TRUE]
        ELSE IF D >= Max THEN [D |-> Max - 1, bClamp |-> TRUE]
        ELSE [D |-> D, bClamp |-> FALSE]

\* A vector other than zero in place of Dummy.
DummyOnes == <<Float(1), Float(1), Float(1)>>

\* FVector Dummy(0, 0, 0).
Dummy == <<Float(0), Float(0), Float(0)>>

\* WritePackedVector<ScaleFactor, MaxBitsPerComponent> from the clamp on, for
\* a scaled Value without NaN.
WritePackedVectorBody(MaxBitsPerComponent, Value, Ar) ==
    LET ClampedValue == [i \in 1..3 |-> ClampFloat(Value[i].v)]
        bClamp == \E i \in 1..3 : ClampedValue[i] # Value[i].v
        IntX == ClampedValue[1]
        IntY == ClampedValue[2]
        IntZ == ClampedValue[3]
        Bits == Clamp(CeilLogTwo(1 + Max3(Abs(IntX), Abs(IntY), Abs(IntZ))),
                      1, MaxBitsPerComponent) - 1
        Ar0 == SerializeInt(Ar, Bits, MaxBitsPerComponent).Ar
        Bias == Shl1(Bits + 1)
        Max == Shl1(Bits + 2)
        DX == BiasedComponent(IntX, Bias, Max)
        DY == BiasedComponent(IntY, Bias, Max)
        DZ == BiasedComponent(IntZ, Bias, Max)
        Ar1 == SerializeInt(Ar0, DX.D, Max).Ar
        Ar2 == SerializeInt(Ar1, DY.D, Max).Ar
        Ar3 == SerializeInt(Ar2, DZ.D, Max).Ar
    IN  [Ar |-> Ar3, bResult |-> ~(bClamp \/ DX.bClamp \/ DY.bClamp \/ DZ.bClamp)]

\* WritePackedVector<ScaleFactor, MaxBitsPerComponent>.
WritePackedVector(ScaleFactor, MaxBitsPerComponent, V, Ar) ==
    LET Value == [i \in 1..3 |-> ScaleFloat(V[i], ScaleFactor)]
    IN  IF ContainsNaN(Value)
        THEN [Ar |-> WritePackedVectorBody(
                         MaxBitsPerComponent,
                         [i \in 1..3 |-> ScaleFloat(Dummy[i], ScaleFactor)], Ar).Ar,
              bResult |-> FALSE]
        ELSE WritePackedVectorBody(MaxBitsPerComponent, Value, Ar)

\* ReadPackedVector<ScaleFactor, MaxBitsPerComponent>: each component is the
\* quotient num / den of a whole number by the scale factor.
ReadPackedVector(ScaleFactor, MaxBitsPerComponent, Ar) ==
    LET h == SerializeInt(Ar, 0, MaxBitsPerComponent)
        Bits == h.Value
        Bias == Shl1(Bits + 1)
        Max == Shl1(Bits + 2)
        x == SerializeInt(h.Ar, 0, Max)
        y == SerializeInt(x.Ar, 0, Max)
        z == SerializeInt(y.Ar, 0, Max)
    IN  [Ar |-> z.Ar,
         Bits |-> Bits,
         Value |-> <<[num |-> x.Value - Bias, den |-> ScaleFactor],
                     [num |-> y.Value - Bias, den |-> ScaleFactor],
                     [num |-> z.Value - Bias, den |-> ScaleFactor]>>,
         bResult |-> TRUE]

\* TFixedCompressedFloatDetails<MaxValue, NumBits>.
MaxBitValue(NumBits) == Shl1(NumBits - 1) - 1
Bias(NumBits) == Shl1(NumBits - 1)
SerIntMax(NumBits) == Shl1(NumBits)
MaxDelta(NumBits) == Shl1(NumBits) - 1

\* FMath::TruncToInt and FMath::RoundToInt (floor of the value plus one half)
\* of the quotient num / den, den > 0, in exact arithmetic.
TruncToIntOffByOne(num, den) == (num \div den) - 1
TruncToInt(num, den) == IF num >= 0 THEN num \div den ELSE -((-num) \div den)
RoundToInt(num, den) == (2 * num + den) \div (2 * den)

\* WriteFixedCompressedFloat<MaxValue, NumBits> of the value num / den.
WriteFixedCompressedFloat(MaxValue, NumBits, Value, Ar) ==
    LET ScaledValue ==
            IF MaxValue > MaxBitValue(NumBits)
            THEN TruncToInt(MaxBitValue(NumBits) * Value.num, MaxValue * Value.den)
            ELSE RoundToInt((MaxBitValue(NumBits) \div MaxValue) * Value.num, Value.den)
        Delta0 == ScaledValue + Bias(NumBits)
        clamp == Delta0 < 0 \/ Delta0 > MaxDelta(NumBits)
        Delta == IF ~clamp THEN Delta0 ELSE IF Delta0 > 0 THEN MaxDelta(NumBits) ELSE 0
    IN  [Ar |-> SerializeInt(Ar, Delta, SerIntMax(NumBits)).Ar, bResult |-> ~clamp]

\* ReadFixedCompressedFloat<MaxValue, NumBits>: the value read is the quotient
\* num / den.
ReadFixedCompressedFloat(MaxValue, NumBits, Ar) ==
    LET d == SerializeInt(Ar, 0, SerIntMax(NumBits))
        UnscaledValue == d.Value - Bias(NumBits)
    IN  [Ar |-> d.Ar,
         Delta |-> d.Value,
         Value |-> IF MaxValue > MaxBitValue(NumBits)
                   THEN [num |-> UnscaledValue * MaxValue, den |-> MaxBitValue(NumBits)]
                   ELSE [num |-> UnscaledValue, den |-> MaxBitValue(NumBits) \div MaxValue],
         bResult |-> TRUE]

\* -------------------------------------------------------------------- state

VARIABLES
    sender,       \* the sender's FFastArraySerializer with its Items
    BaseStates,   \* every FNetFastTArrayBaseState object a write created, in order
    OldState,     \* the observer's base state: an index into BaseStates, 0 for none
    Wire,         \* the deltas written, each with the sender's Items as written
    receiver,     \* the receiver's FFastArraySerializer with its Items
    NextRead,     \* index in Wire of the next delta the receiver reads in order
    mapped,       \* the identifiers the package map can resolve now
    bInternalAck, \* Parms.bInternalAck of the receiving connection
    Applied,      \* the indices in Wire of the deltas a receiver read in any order
    Codec,        \* one use of a codec: its arguments, the archive and the results
    LastRead      \* what the caller and the owner observed of the last read

vars == <<sender, BaseStates, OldState, Wire, receiver, NextRead, mapped, bInternalAck,
          LastRead, Codec, Applied>>

senderVars == <<sender, BaseStates, OldState, Wire>>
receiverVars == <<receiver, NextRead, LastRead>>

\* No use of SafeNetSerializeTArray_Default.
NoCodec ==
    [Phase |-> "none", MaxNum |-> 0, Array |-> <<>>, Bits |-> <<>>, bSaveResult |-> TRUE,
     Loaded |-> <<>>, bLoadResult |-> TRUE, Outcome |-> "none"]

NoRead ==
    [Count |-> 0, bResult |-> TRUE, bReaderError |-> FALSE, bAllApplied |-> TRUE,
     NumDeleted |-> 0, NumChanged |-> 0, ErrorAt |-> 0,
     ArrayReplicationKey |-> 0, BaseReplicationKey |-> 0,
     ReadIDs |-> <<>>, Log |-> <<>>]

Init ==
    /\ sender = NewSerializer
    /\ BaseStates = <<>>
    /\ OldState = 0
    /\ Wire = <<>>
    /\ receiver = NewSerializer
    /\ NextRead = 1
    /\ mapped = {}
    /\ bInternalAck = FALSE
    /\ LastRead = NoRead
    /\ Applied = {}
    /\ Codec = NoCodec

\* ----------------------------------------------------------- sender actions

\* Application code appends a record to the sender's Items without marking it.
AddItem ==
    /\ Len(sender.Items) < MaxItems
    /\ sender' = [sender EXCEPT !.Items = Append(sender.Items, NewItem)]
    /\ UNCHANGED <<BaseStates, OldState, Wire, receiver, NextRead, mapped, bInternalAck, Applied, Codec,
                   LastRead>>

\* Application code removes Items[i] from the sender's Items without marking.
RemoveItem(i) ==
    /\ i \in 1..Len(sender.Items)
    /\ sender' = [sender EXCEPT !.Items = RemoveAt(sender.Items, i)]
    /\ UNCHANGED <<BaseStates, OldState, Wire, receiver, NextRead, mapped, bInternalAck, Applied, Codec,
                   LastRead>>

SenderMarkItemDirty(i) ==
    /\ i \in 1..Len(sender.Items)
    /\ sender.ArrayReplicationKey < MaxArrayKey
    /\ sender' = MarkItemDirty(sender, i)
    /\ UNCHANGED <<BaseStates, OldState, Wire, receiver, NextRead, mapped, bInternalAck, Applied, Codec,
                   LastRead>>

SenderMarkArrayDirty ==
    /\ sender.ArrayReplicationKey < MaxArrayKey
    /\ sender' = MarkArrayDirty(sender)
    /\ UNCHANGED <<BaseStates, OldState, Wire, receiver, NextRead, mapped, bInternalAck, Applied, Codec,
                   LastRead>>

\* The replication driver calls FastArrayDeltaSerialize with a writer and the
\* observer's base state; the state handed back becomes the observer's.  The
\* channel holds one delta at a time: a write waits for the previous delta to
\* be read.
Write ==
    /\ Len(Wire) < MaxWrites
    /\ NextRead > Len(Wire)
    /\ \E w \in {WriteFastArray(sender,
                               IF OldState = 0 THEN NewBaseState ELSE BaseStates[OldState],
                               OldState # 0, FALSE)} :
           /\ sender' = w.ser
           /\ BaseStates' = IF w.bNewState THEN Append(BaseStates, w.NewState) ELSE BaseStates
           /\ OldState' = IF w.bNewState THEN Len(BaseStates) + 1 ELSE OldState
           /\ Wire' = IF w.bWrote
                      THEN Append(Wire, [Delta |-> w.Delta, Items |-> w.ser.Items])
                      ELSE Wire
    /\ UNCHANGED <<receiver, NextRead, mapped, bInternalAck, Applied, Codec, LastRead>>

\* --------------------------------------------------------- receiver actions

\* What is observed of a read of Delta with result r.
Observe(Delta, ErrorAt, r) ==
    [Count |-> LastRead.Count + 1,
     bResult |-> r.bResult,
     bReaderError |-> r.bReaderError,
     bAllApplied |-> LastRead.bAllApplied /\ r.bResult,
     NumDeleted |-> Len(Delta.Deleted),
     NumChanged |-> Len(Delta.Changed),
     ErrorAt |-> ErrorAt,
     ArrayReplicationKey |-> IF HeaderWithinLimits(Delta) THEN Delta.ArrayReplicationKey ELSE 0,
     BaseReplicationKey |-> IF HeaderWithinLimits(Delta) THEN Delta.BaseReplicationKey ELSE 0,
     ReadIDs |-> [n \in 1..r.NumRead |-> Delta.Changed[n].ID],
     Log |-> r.Log]

\* The receiver reads Delta; ErrorAt names the changed entry whose payload
\* leaves the reader in error (0: none does).
Read(Delta, ErrorAt) ==
    /\ LastRead.Count < MaxReads
    /\ \E r \in {ReadFastArray(receiver, Delta, ErrorAt, bInternalAck, mapped)} :
           /\ receiver' = r.ser
           /\ LastRead' = Observe(Delta, ErrorAt, r)

\* The next delta written arrives and is read.
Deliver ==
    /\ NextRead <= Len(Wire)
    /\ Read(Wire[NextRead].Delta, 0)
    /\ NextRead' = NextRead + 1
    /\ UNCHANGED <<sender, BaseStates, OldState, Wire, mapped, bInternalAck, Applied, Codec>>

\* The delta read last arrives again (a retransmission) and is read again.
Redeliver ==
    /\ NextRead > 1
    /\ Read(Wire[NextRead - 1].Delta, 0)
    /\ UNCHANGED <<sender, BaseStates, OldState, Wire, NextRead, mapped, bInternalAck, Applied, Codec>>

SenderNext ==
    \/ AddItem
    \/ \E i \in 1..MaxItems : RemoveItem(i)
    \/ \E i \in 1..MaxItems : SenderMarkItemDirty(i)
    \/ SenderMarkArrayDirty
    \/ Write

\* Reliable, ordered delivery of every delta written.
Next ==
    \/ SenderNext
    \/ Deliver

Spec == Init /\ [][Next]_vars

\* Ordered delivery with retransmission of the delta read last.
NextRetransmit ==
    \/ SenderNext
    \/ Deliver
    \/ Redeliver

SpecRetransmit == Init /\ [][NextRetransmit]_vars

\* ------------------------------------------------- delivery in any order

\* The replication driver writes the next delta without waiting for the
\* previous one to be read.
WriteAhead ==
    /\ Len(Wire) < MaxWrites
    /\ \E w \in {WriteFastArray(sender,
                               IF OldState = 0 THEN NewBaseState ELSE BaseStates[OldState],
                               OldState # 0, FALSE)} :
           /\ sender' = w.ser
           /\ BaseStates' = IF w.bNewState THEN Append(BaseStates, w.NewState) ELSE BaseStates
           /\ OldState' = IF w.bNewState THEN Len(BaseStates) + 1 ELSE OldState
           /\ Wire' = IF w.bWrote
                      THEN Append(Wire, [Delta |-> w.Delta, Items |-> w.ser.Items])
                      ELSE Wire
    /\ UNCHANGED <<receiver, NextRead, mapped, bInternalAck, Applied, Codec, LastRead>>

\* A delta that was written and not read yet arrives and is read, whichever
\* its place in the order of writing.
DeliverAny(k) ==
    /\ k \in 1..Len(Wire)
    /\ k \notin Applied
    /\ Read(Wire[k].Delta, 0)
    /\ Applied' = Applied \cup {k}
    /\ UNCHANGED <<sender, BaseStates, OldState, Wire, NextRead, mapped, bInternalAck, Codec>>

NextReorder ==
    \/ AddItem
    \/ \E i \in 1..MaxItems : RemoveItem(i)
    \/ \E i \in 1..MaxItems : SenderMarkItemDirty(i)
    \/ SenderMarkArrayDirty
    \/ WriteAhead
    \/ \E k \in 1..MaxWrites : DeliverAny(k)

\* A sender whose deltas reach the receiver in any order, each once.
SpecReorder == Init /\ [][NextReorder]_vars

\* ------------------------------------------------- arbitrary incoming deltas

\* All sequences over S of length at most n.
SeqsUpTo(S, n) == UNION {[1..k -> S] : k \in 0..n}

\* Lists within a limit, and one list longer than the limit for each id
\* (a list over the limit is rejected before any of its elements is read).
ListsAround(S, limit) ==
    SeqsUpTo(S, limit) \cup {[n \in 1..(limit + 1) |-> x] : x \in S}

\* The ids and the array keys an incoming delta names.
WireIDs == {1, 2}
WireKeys == {1, 2}

\* The identifiers the content of an incoming record references: the record
\* with id 1 references a dynamic object, the others reference nothing.
WirePayload(id) == IF id = 1 THEN {"dyn"} ELSE {}

\* The headers an incoming delta carries: an array key, and as base key
\* INDEX_NONE (written without a base state) or an earlier array key.
WireHeaders ==
    {h \in [ArrayReplicationKey : WireKeys,
            BaseReplicationKey : {INDEX_NONE} \cup WireKeys] :
        h.BaseReplicationKey < h.ArrayReplicationKey}

\* Every delta the wire format can carry within the bounds.
WireDeltas ==
    {[ArrayReplicationKey |-> h.ArrayReplicationKey,
      BaseReplicationKey |-> h.BaseReplicationKey,
      Deleted |-> d,
      Changed |-> [n \in 1..Len(c) |-> [ID |-> c[n], Payload |-> WirePayload(c[n])]]] :
        h \in WireHeaders,
        d \in ListsAround(WireIDs, MaxNumberOfAllowedDeletionsPerUpdate),
        c \in ListsAround(WireIDs, MaxNumberOfAllowedChangesPerUpdate)}

\* A delta arrives from the network, well formed or not, and is read; the
\* payload of one of its changed entries may leave the reader in error.
ReadWire ==
    /\ LastRead.Count < MaxWireReads
    /\ \E Delta \in WireDeltas : \E ErrorAt \in 0..Len(Delta.Changed) :
           Read(Delta, ErrorAt)
    /\ UNCHANGED <<sender, BaseStates, OldState, Wire, NextRead, mapped, bInternalAck, Applied, Codec>>

InitWire ==
    /\ sender = NewSerializer
    /\ BaseStates = <<>>
    /\ OldState = 0
    /\ Wire = <<>>
    /\ receiver = NewSerializer
    /\ NextRead = 1
    /\ mapped = {}
    /\ bInternalAck \in BOOLEAN
    /\ LastRead = NoRead
    /\ Applied = {}
    /\ Codec = NoCodec

NextWire ==
    \/ ReadWire

\* A receiver fed arbitrary deltas.
SpecWire == InitWire /\ [][NextWire]_vars

\* A receiver whose type adds a local record in its PreReplicatedRemove
\* callback, fed arbitrary deltas.
InitOwner ==
    /\ sender = NewSerializer
    /\ BaseStates = <<>>
    /\ OldState = 0
    /\ Wire = <<>>
    /\ receiver = [NewSerializer EXCEPT !.bCallbackAdds = TRUE]
    /\ NextRead = 1
    /\ mapped = {}
    /\ bInternalAck \in BOOLEAN
    /\ LastRead = NoRead
    /\ Applied = {}
    /\ Codec = NoCodec

SpecOwner == InitOwner /\ [][NextWire]_vars

\* ------------------------------------------- a collection near the wrap

\* Values of IDCounter and ArrayReplicationKey at construction and just
\* before the 32-bit counter comes round to INDEX_NONE.
WrapCounters == {0, -2}

\* The first state a collection receives: a delta written without base
\* state that deletes nothing.
FirstDeltas ==
    {d \in WireDeltas : /\ d.Deleted = <<>>
                        /\ d.ArrayReplicationKey = 1
                        /\ d.BaseReplicationKey = INDEX_NONE}

InitMark ==
    /\ sender \in {[NewSerializer EXCEPT !.IDCounter = c, !.ArrayReplicationKey = k] :
                      c \in WrapCounters, k \in WrapCounters}
    /\ BaseStates = <<>>
    /\ OldState = 0
    /\ Wire = <<>>
    /\ receiver = NewSerializer
    /\ NextRead = 1
    /\ mapped = {}
    /\ bInternalAck = FALSE
    /\ LastRead = NoRead
    /\ Applied = {}
    /\ Codec = NoCodec

\* The collection, still empty, reads a delta itself (a client's collection
\* receives its first state before client code marks records in it).
SenderRead ==
    /\ sender.Items = <<>>
    /\ Wire = <<>>
    /\ BaseStates = <<>>
    /\ LastRead.Count = 0
    /\ \E Delta \in FirstDeltas :
           \E r \in {ReadFastArray(sender, Delta, 0, bInternalAck, mapped)} :
               /\ sender' = r.ser
               /\ LastRead' = Observe(Delta, 0, r)
    /\ UNCHANGED <<BaseStates, OldState, Wire, receiver, NextRead, mapped, bInternalAck, Applied, Codec>>

NextMark ==
    \/ SenderNext
    \/ SenderRead

\* One collection that is marked, written and may have read its first state.
SpecMark == InitMark /\ [][NextMark]_vars

\* ------------------------------------------------- deferred references

\* What the content of an incoming record may reference.
PollPayloads == {{}, {"dyn"}, {"stat"}, {"dyn", "stat"}}

\* Incoming deltas written at array key 1 without a base state, deleting
\* nothing or record 1 and carrying the content of at most
\* MaxNumberOfAllowedChangesPerUpdate.
PollDeltas ==
    {[ArrayReplicationKey |-> 1,
      BaseReplicationKey |-> INDEX_NONE,
      Deleted |-> d,
      Changed |-> c] :
        d \in {<<>>, <<1>>},
        c \in SeqsUpTo([ID : WireIDs, Payload : PollPayloads],
                       MaxNumberOfAllowedChangesPerUpdate)}

\* A delta arrives and is read while the guids in mapped are resolvable.
ReadPoll ==
    /\ LastRead.Count < MaxPollReads
    /\ \E Delta \in PollDeltas : Read(Delta, 0)
    /\ UNCHANGED <<sender, BaseStates, OldState, Wire, NextRead, mapped, bInternalAck, Applied, Codec>>

\* The package map learns the object of guid g.
MapGuid(g) ==
    /\ g \notin mapped
    /\ mapped' = mapped \cup {g}
    /\ UNCHANGED <<sender, BaseStates, OldState, Wire, receiver, NextRead, bInternalAck, Applied, Codec,
                   LastRead>>

\* Application code removes Items[i] from the receiver's Items without marking.
ReceiverRemoveItem(i) ==
    /\ i \in 1..Len(receiver.Items)
    /\ receiver' = [receiver EXCEPT !.Items = RemoveAt(receiver.Items, i)]
    /\ UNCHANGED <<sender, BaseStates, OldState, Wire, NextRead, mapped, bInternalAck, Applied, Codec,
                   LastRead>>

\* The driver polls the collection for unmapped objects; one of the guids
\* without an object may be reported broken. LastRead.Log records what the
\* poll re-read and which callbacks it made.
Poll(broken) ==
    /\ \E r \in {UpdateUnmappedObjects(receiver, mapped, broken)} :
           /\ receiver' = r.ser
           /\ LastRead' = [LastRead EXCEPT !.Log = r.Log]
    /\ UNCHANGED <<sender, BaseStates, OldState, Wire, NextRead, mapped, bInternalAck, Applied, Codec>>

NextPoll ==
    \/ ReadPoll
    \/ \E g \in NetworkGUIDs : MapGuid(g)
    \/ \E i \in 1..MaxItems : ReceiverRemoveItem(i)
    \/ \E broken \in {{}} \cup {{g} : g \in NetworkGUIDs \ mapped} : Poll(broken)

InitPoll ==
    /\ sender = NewSerializer
    /\ BaseStates = <<>>
    /\ OldState = 0
    /\ Wire = <<>>
    /\ receiver = NewSerializer
    /\ NextRead = 1
    /\ mapped = {}
    /\ bInternalAck = FALSE
    /\ LastRead = NoRead
    /\ Applied = {}
    /\ Codec = NoCodec

\* A receiver that reads deltas and is polled while guids become resolvable.
SpecPoll == InitPoll /\ [][NextPoll]_vars

\* ------------------------------------------------- several observers

\* A write that puts its new state into the object of the old one.
PublishInPlace(States, Old, w) ==
    [States |-> IF ~w.bNewState THEN States
                ELSE IF Old = 0 THEN Append(States, w.NewState)
                ELSE [States EXCEPT ![Old] = w.NewState],
     Handed |-> IF w.bNewState /\ Old = 0 THEN Len(States) + 1 ELSE Old]

\* What a write leaves in *Parms.NewState: a new FNetFastTArrayBaseState, or
\* the old state shared when nothing changed.  States are the state objects
\* that exist, Old the index of Parms.OldState (0: none).
Publish(States, Old, w) ==
    [States |-> IF w.bNewState THEN Append(States, w.NewState) ELSE States,
     Handed |-> IF w.bNewState THEN Len(States) + 1 ELSE Old]

\* The replication driver writes for an observer whose base state is state o
\* (0: an observer that has none yet); OldState names the state handed back.
WriteFor(o) ==
    /\ Len(Wire) < MaxWrites
    /\ o \in 0..Len(BaseStates)
    /\ \E w \in {WriteFastArray(sender,
                               IF o = 0 THEN NewBaseState ELSE BaseStates[o],
                               o # 0, FALSE)} :
       \E p \in {Publish(BaseStates, o, w)} :
           /\ sender' = w.ser
           /\ BaseStates' = p.States
           /\ OldState' = p.Handed
           /\ Wire' = IF w.bWrote
                      THEN Append(Wire, [Delta |-> w.Delta, Items |-> w.ser.Items])
                      ELSE Wire
    /\ UNCHANGED <<receiver, NextRead, mapped, bInternalAck, Applied, Codec, LastRead>>

\* The receiver reads one of the deltas written, once.
ReadOne(k) ==
    /\ Applied = {}
    /\ DeliverAny(k)

NextObservers ==
    \/ AddItem
    \/ \E i \in 1..MaxItems : SenderMarkItemDirty(i)
    \/ \E o \in 0..MaxWrites : WriteFor(o)
    \/ \E k \in 1..MaxWrites : ReadOne(k)
    \/ Poll({})

\* A sender whose collection grows and is marked, writing for observers that
\* hold any of the base states handed back so far, and a receiver that reads
\* one of the deltas and is polled.
SpecObservers == Init /\ [][NextObservers]_vars

\* ------------------------------------------------- one changed entry

\* The changed entries a delta may carry.
Entries == [ID : WireIDs, Payload : PollPayloads]

\* The state of the changed-element loop before its first pass.
LoopStart(ser) ==
    [ser |-> ser, ChangedIndices |-> <<>>, AddedIndices |-> <<>>, NumRead |-> 0,
     bError |-> FALSE]

\* The collections a changed entry meets: a new one, or one that has decoded
\* an entry of an earlier delta.
EntryReceivers ==
    {NewSerializer} \cup
    {ReadChangedElement(LoopStart(NewSerializer), e, 1, FALSE, m).ser :
        e \in Entries, m \in SUBSET NetworkGUIDs}

InitEntry ==
    /\ sender = NewSerializer
    /\ BaseStates = <<>>
    /\ OldState = 0
    /\ Wire = <<>>
    /\ receiver \in EntryReceivers
    /\ NextRead = 1
    /\ mapped \in SUBSET NetworkGUIDs
    /\ bInternalAck = FALSE
    /\ LastRead = NoRead
    /\ Applied = {}
    /\ Codec = [Phase |-> "none", Entry |-> [ID |-> 0, Payload |-> {}],
                bReaderError |-> FALSE]

\* One pass of the changed-element loop: entry e of a delta written at array
\* key 2 is decoded, with or without a reader error.
ReadEntry(e, bReaderError) ==
    /\ Codec.Phase = "none"
    /\ \E r \in {ReadChangedElement(LoopStart(receiver), e, 2, bReaderError, mapped)} :
           receiver' = r.ser
    /\ Codec' = [Phase |-> "decoded", Entry |-> e, bReaderError |-> bReaderError]
    /\ UNCHANGED <<sender, BaseStates, OldState, Wire, NextRead, mapped, bInternalAck,
                   Applied, LastRead>>

NextEntry == \E e \in Entries : \E bReaderError \in BOOLEAN : ReadEntry(e, bReaderError)

\* A receiver that decodes one changed entry.
SpecEntry == InitEntry /\ [][NextEntry]_vars

\* ------------------------------------------------- local records

\* Client code adds a record of its own to the receiver's Items; the record
\* has no ReplicationID.
ReceiverAddItem ==
    /\ Len(receiver.Items) < MaxItems
    /\ receiver' = [receiver EXCEPT !.Items = Append(receiver.Items, NewItem)]
    /\ UNCHANGED <<sender, BaseStates, OldState, Wire, NextRead, mapped, bInternalAck,
                   Applied, Codec, LastRead>>

NextLocal ==
    \/ ReadPoll
    \/ \E g \in NetworkGUIDs : MapGuid(g)
    \/ \E i \in 1..MaxItems : ReceiverRemoveItem(i)
    \/ ReceiverAddItem
    \/ \E broken \in {{}} \cup {{g} : g \in NetworkGUIDs \ mapped} : Poll(broken)

\* A receiver that reads deltas and is polled, while client code removes
\* records and adds records of its own.
SpecLocal == InitPoll /\ [][NextLocal]_vars

\* ------------------------------------------------- a receiver that marks

\* Client code marks a record of the receiver's Items dirty.
ReceiverMarkItemDirty(i) ==
    /\ i \in 1..Len(receiver.Items)
    /\ receiver.ArrayReplicationKey < MaxArrayKey
    /\ receiver' = MarkItemDirty(receiver, i)
    /\ UNCHANGED <<sender, BaseStates, OldState, Wire, NextRead, mapped, bInternalAck,
                   Applied, Codec, LastRead>>

\* Client code marks the receiver's array dirty.
ReceiverMarkArrayDirty ==
    /\ receiver.ArrayReplicationKey < MaxArrayKey
    /\ receiver' = MarkArrayDirty(receiver)
    /\ UNCHANGED <<sender, BaseStates, OldState, Wire, NextRead, mapped, bInternalAck,
                   Applied, Codec, LastRead>>

\* The receivers a delta meets: a new one, or one that has read its first
\* state.
IndexReceivers ==
    {NewSerializer} \cup {ReadFastArray(NewSerializer, d, 0, FALSE, {}).ser : d \in FirstDeltas}

\* The deltas that follow the first state: those written at array key 2.
IndexDeltas == {d \in WireDeltas : d.ArrayReplicationKey = 2}

InitIndex ==
    /\ sender = NewSerializer
    /\ BaseStates = <<>>
    /\ OldState = 0
    /\ Wire = <<>>
    /\ receiver \in IndexReceivers
    /\ NextRead = 1
    /\ mapped = {}
    /\ bInternalAck = FALSE
    /\ LastRead = NoRead
    /\ Applied = {}
    /\ Codec = NoCodec

\* A delta arrives from the network, well formed or not, and is read; the
\* payload of its last changed entry may leave the reader in error.
ReadIndex ==
    /\ LastRead.Count < MaxPollReads
    /\ \E Delta \in IndexDeltas : \E ErrorAt \in {0, Len(Delta.Changed)} :
           Read(Delta, ErrorAt)
    /\ UNCHANGED <<sender, BaseStates, OldState, Wire, NextRead, mapped, bInternalAck, Applied, Codec>>

NextIndex ==
    \/ ReadIndex
    \/ Poll({})
    \/ \E i \in 1..MaxItems : ReceiverMarkItemDirty(i)
    \/ ReceiverMarkArrayDirty

\* A receiver fed arbitrary deltas, polled, and marked by client code.
SpecIndex == InitIndex /\ [][NextIndex]_vars

\* ------------------------------------------------- bounded sequence codec

\* The MaxNum arguments: the small ones, and the least one whose count field
\* has 32 bits.
HugeMaxNum == 2^30 + 1
MaxNums == (0..MaxMaxNum) \cup {HugeMaxNum}

\* The values of the elements.
ElementValues == {0, 1, 255}

\* The arrays application code saves.
SavedArrays == SeqsUpTo(ElementValues, MaxSeqLen)

\* The bits of a sequence of elements.
RECURSIVE ElementsBits(_)
ElementsBits(a) ==
    IF a = <<>> THEN <<>> ELSE BitsOf(a[1], ElementBits) \o ElementsBits(Tail(a))

\* Count fields of n bits: a low count, with the last bit clear or set.
CountFields(n) ==
    {BitsOf(v, n - 1) \o <<b>> :
        v \in {w \in 0..(MaxSeqLen + 1) : ValueOf(BitsOf(w, n - 1)) = w}, b \in {0, 1}}

\* What may arrive for a reader of SafeNetSerializeTArray_Default<MaxNum>: a
\* count field followed by whole elements, or nothing at all.
IncomingBits(MaxNum) ==
    {<<>>} \cup {c \o ElementsBits(a) :
                    c \in CountFields(CeilLogTwo(MaxNum) + 1), a \in SavedArrays}

InitSeq ==
    /\ sender = NewSerializer
    /\ BaseStates = <<>>
    /\ OldState = 0
    /\ Wire = <<>>
    /\ receiver = NewSerializer
    /\ NextRead = 1
    /\ mapped = {}
    /\ bInternalAck = FALSE
    /\ LastRead = NoRead
    /\ Applied = {}
    /\ Codec \in {[NoCodec EXCEPT !.Phase = "new", !.MaxNum = m, !.Array = a] :
                     m \in MaxNums, a \in SavedArrays}

\* Application code saves its array into a new archive.
Save ==
    /\ Codec.Phase = "new"
    /\ \E w \in {SafeNetSerializeTArray_Default(Codec.MaxNum, NewWriter, Codec.Array, FALSE)} :
           Codec' = [Codec EXCEPT !.Phase = "saved", !.Bits = w.Ar.Bits,
                                  !.bSaveResult = w.bResult]
    /\ UNCHANGED <<sender, BaseStates, OldState, Wire, receiver, NextRead, mapped,
                   bInternalAck, Applied, LastRead>>

\* Bits arrive from the network at a process that has saved nothing.
Receive ==
    /\ Codec.Phase = "new"
    /\ Codec.Array = <<>>
    /\ \E bits \in IncomingBits(Codec.MaxNum) :
           Codec' = [Codec EXCEPT !.Phase = "received", !.Bits = bits]
    /\ UNCHANGED <<sender, BaseStates, OldState, Wire, receiver, NextRead, mapped,
                   bInternalAck, Applied, LastRead>>

\* The archive is loaded into an array that may hold elements already, by a
\* build with or without checkSlow.
Load ==
    /\ Codec.Phase \in {"saved", "received"}
    /\ \E bCheckSlow \in BOOLEAN : \E Array \in {<<>>, <<255>>} :
       \E r \in {SafeNetSerializeTArray_Default(Codec.MaxNum, NewReader(Codec.Bits),
                                                 Array, bCheckSlow)} :
           Codec' = [Codec EXCEPT
                        !.Phase = IF Codec.Phase = "saved" THEN "loaded" ELSE "decoded",
                        !.Loaded = r.Array, !.bLoadResult = r.bResult,
                        !.Outcome = r.Outcome]
    /\ UNCHANGED <<sender, BaseStates, OldState, Wire, receiver, NextRead, mapped,
                   bInternalAck, Applied, LastRead>>

NextSeq ==
    \/ Save
    \/ Receive
    \/ Load

\* One use of SafeNetSerializeTArray_Default: a save and its load, or a load
\* of what arrived.
SpecSeq == InitSeq /\ [][NextSeq]_vars

\* ------------------------------------------------- quantization codecs

\* SerializePackedVector<ScaleFactor, MaxBitsPerComponent> as instantiated by
\* FVector_NetQuantize and FVector_NetQuantize10.
PackedFormats == {<<1, 20>>, <<10, 24>>}

\* Components around the limits of the format: 0, 1, 2^19 and 2^20 - 1, 2^20,
\* 2^20 + 1, of either sign, and not-a-number.
ComponentMagnitudes == {0, 1, 2^19, 2^20 - 1, 2^20, 2^20 + 1}
Components == {Float(m) : m \in ComponentMagnitudes} \cup
              {Float(-m) : m \in ComponentMagnitudes} \cup {NaN}
PackedVectors == {<<x, y, z>> : x \in Components, y \in Components, z \in Components}

\* n bits b.
Fill(b, n) == [i \in 1..n |-> b]

\* What may arrive for ReadPackedVector: any five bits where the header is,
\* followed by no bits, a few or enough for three components, all 0 or all 1.
IncomingVectorBits ==
    {h \o Fill(b, n) : h \in [1..5 -> {0, 1}], b \in {0, 1}, n \in {0, 7, 80}}
        \cup {<<>>, <<1>>}

\* WriteFixedCompressedFloat<MaxValue, NumBits>: small formats that scale up
\* and that scale down, and the format of FVector_NetQuantizeNormal.
SmallFixedFormats == {<<m, n>> : m \in 1..MaxFixedValue, n \in 2..MaxFixedBits}
FixedFormats == SmallFixedFormats \cup {<<1, 16>>}

\* The values written are the multiples of 1 / ValueDen of magnitude at most
\* MaxValue.
ValueDen == 4
FixedValues(MaxValue) ==
    {[num |-> n, den |-> ValueDen] : n \in (-(MaxValue * ValueDen))..(MaxValue * ValueDen)}

\* What may arrive for ReadFixedCompressedFloat<MaxValue, NumBits>: up to
\* NumBits bits.
IncomingFloatBits(NumBits) == SeqsUpTo({0, 1}, NumBits)

NoQuant ==
    [Phase |-> "none", Format |-> <<0, 0>>, Value |-> <<>>, Bits |-> <<>>,
     bWriteResult |-> TRUE, Read |-> <<>>, bReadResult |-> TRUE]

InitQuant ==
    /\ sender = NewSerializer
    /\ BaseStates = <<>>
    /\ OldState = 0
    /\ Wire = <<>>
    /\ receiver = NewSerializer
    /\ NextRead = 1
    /\ mapped = {}
    /\ bInternalAck = FALSE
    /\ LastRead = NoRead
    /\ Applied = {}
    /\ \/ \E f \in PackedFormats : \E V \in PackedVectors :
              Codec = [NoQuant EXCEPT !.Phase = "vector", !.Format = f, !.Value = V]
       \/ \E f \in FixedFormats : \E v \in FixedValues(f[1]) :
              Codec = [NoQuant EXCEPT !.Phase = "float", !.Format = f, !.Value = v]

\* Application code writes its vector into a new archive.
WriteVector ==
    /\ Codec.Phase = "vector"
    /\ \E w \in {WritePackedVector(Codec.Format[1], Codec.Format[2], Codec.Value, NewWriter)} :
           Codec' = [Codec EXCEPT !.Phase = "vector written", !.Bits = w.Ar.Bits,
                                  !.bWriteResult = w.bResult]
    /\ UNCHANGED <<sender, BaseStates, OldState, Wire, receiver, NextRead, mapped,
                   bInternalAck, Applied, LastRead>>

\* Bits arrive from the network at a process that reads a vector.
ReceiveVector ==
    /\ Codec.Phase = "vector"
    /\ Codec.Value = Dummy
    /\ \E bits \in IncomingVectorBits :
           Codec' = [Codec EXCEPT !.Phase = "vector received", !.Bits = bits]
    /\ UNCHANGED <<sender, BaseStates, OldState, Wire, receiver, NextRead, mapped,
                   bInternalAck, Applied, LastRead>>

\* The archive is read with ReadPackedVector.
ReadVector ==
    /\ Codec.Phase \in {"vector written", "vector received"}
    /\ \E r \in {ReadPackedVector(Codec.Format[1], Codec.Format[2], NewReader(Codec.Bits))} :
           Codec' = [Codec EXCEPT
                        !.Phase = IF Codec.Phase = "vector written" THEN "vector read"
                                  ELSE "vector decoded",
                        !.Read = r.Value, !.bReadResult = r.bResult /\ r.Bits < Codec.Format[2]]
    /\ UNCHANGED <<sender, BaseStates, OldState, Wire, receiver, NextRead, mapped,
                   bInternalAck, Applied, LastRead>>

\* Application code writes its float into a new archive.
WriteFloat ==
    /\ Codec.Phase = "float"
    /\ \E w \in {WriteFixedCompressedFloat(Codec.Format[1], Codec.Format[2], Codec.Value,
                                            NewWriter)} :
           Codec' = [Codec EXCEPT !.Phase = "float written", !.Bits = w.Ar.Bits,
                                  !.bWriteResult = w.bResult]
    /\ UNCHANGED <<sender, BaseStates, OldState, Wire, receiver, NextRead, mapped,
                   bInternalAck, Applied, LastRead>>

\* Bits arrive from the network at a process that reads a float.
ReceiveFloat ==
    /\ Codec.Phase = "float"
    /\ Codec.Value.num = 0
    /\ Codec.Format \in SmallFixedFormats
    /\ \E bits \in IncomingFloatBits(Codec.Format[2]) :
           Codec' = [Codec EXCEPT !.Phase = "float received", !.Bits = bits]
    /\ UNCHANGED <<sender, BaseStates, OldState, Wire, receiver, NextRead, mapped,
                   bInternalAck, Applied, LastRead>>

\* The archive is read with ReadFixedCompressedFloat.
ReadFloat ==
    /\ Codec.Phase \in {"float written", "float received"}
    /\ \E r \in {ReadFixedCompressedFloat(Codec.Format[1], Codec.Format[2],
                                           NewReader(Codec.Bits))} :
           Codec' = [Codec EXCEPT
                        !.Phase = IF Codec.Phase = "float written" THEN "float read"
                                  ELSE "float decoded",
                        !.Read = r.Value, !.bReadResult = r.bResult]
    /\ UNCHANGED <<sender, BaseStates, OldState, Wire, receiver, NextRead, mapped,
                   bInternalAck, Applied, LastRead>>

NextQuant ==
    \/ WriteVector
    \/ ReceiveVector
    \/ ReadVector
    \/ WriteFloat
    \/ ReceiveFloat
    \/ ReadFloat

\* One use of a quantization codec: a write and its read, or a read of what
\* arrived.
SpecQuant == InitQuant /\ [][NextQuant]_vars

\* ------------------------------------------------- one write, any arguments

\* The ids records and old base states carry, and the counter that assigned
\* them.
WriteIDs == {1, 2, 3}
WriteKeys == {0, 1}
WriteIDCounter == 3

\* The records of a collection that is written: never marked, or marked and
\* carrying an id (application code may copy a record with its id).
WriteItems ==
    {NewItem} \cup {[NewItem EXCEPT !.ReplicationID = id, !.ReplicationKey = k] :
                       id \in {1, 2}, k \in WriteKeys}

\* The id-to-key maps of old base states: pairs with distinct ids.
OldMaps ==
    {m \in SeqsUpTo([ID : WriteIDs, Key : WriteKeys], MaxOldPairs) :
        \A i, j \in 1..Len(m) : m[i].ID = m[j].ID => i = j}

\* The serializers written and the old base states handed in.
WriteSerializers ==
    {[NewSerializer EXCEPT !.Items = items, !.IDCounter = WriteIDCounter,
                           !.ArrayReplicationKey = k] :
        items \in SeqsUpTo(WriteItems, MaxWriteItems), k \in {1, 2}}
OldBaseStates == {[IDToCLMap |-> m, ArrayReplicationKey |-> 1] : m \in OldMaps}

InitWriteArgs ==
    /\ sender = NewSerializer
    /\ BaseStates = <<>>
    /\ OldState = 0
    /\ Wire = <<>>
    /\ receiver = NewSerializer
    /\ NextRead = 1
    /\ mapped = {}
    /\ bInternalAck = FALSE
    /\ LastRead = NoRead
    /\ Applied = {}
    /\ \E ser \in WriteSerializers, b \in BOOLEAN :
           \/ \E old \in OldBaseStates :
                  Codec = [Phase |-> "args", ser |-> ser, OldState |-> old,
                           bHasOldState |-> TRUE, bIsWritingOnClient |-> b,
                           Result |-> <<>>]
           \/ Codec = [Phase |-> "args", ser |-> ser, OldState |-> NewBaseState,
                       bHasOldState |-> FALSE, bIsWritingOnClient |-> b,
                       Result |-> <<>>]

\* FastArrayDeltaSerialize is called once with a writer.
WriteOnce ==
    /\ Codec.Phase = "args"
    /\ \E w \in {WriteFastArray(Codec.ser, Codec.OldState, Codec.bHasOldState,
                               Codec.bIsWritingOnClient)} :
           Codec' = [Codec EXCEPT !.Phase = "written", !.Result = w]
    /\ UNCHANGED <<sender, BaseStates, OldState, Wire, receiver, NextRead, mapped,
                   bInternalAck, Applied, LastRead>>

NextWriteArgs == WriteOnce

\* One write of a collection against an old base state, on a server or on a
\* client.
SpecWriteArgs == InitWriteArgs /\ [][NextWriteArgs]_vars

\* ------------------------------------------------------------------- claims

IdSet(Items) == {Items[i].ReplicationID : i \in 1..Len(Items)}

\* How many of the entries of a list of ids name id.
Listings(ids, id) == Cardinality({n \in 1..Len(ids) : ids[n] = id})

\* The ids of the changed entries of a delta, in wire order.
ChangedIDs(Delta) == [n \in 1..Len(Delta.Changed) |-> Delta.Changed[n].ID]

\* Every delta written so far has been read, in order, and applied.
AppliedInOrder ==
    /\ LastRead.Count >= 1
    /\ LastRead.Count = NextRead - 1
    /\ NextRead = Len(Wire) + 1
    /\ LastRead.bAllApplied

\* C1: with every delta written applied in the order written, the set of
\* ReplicationIDs in the receiver's Items equals the set in the sender's
\* Items at the moment the delta read last was written.
C1_RoundTripIdSet ==
    AppliedInOrder => IdSet(receiver.Items) = IdSet(Wire[NextRead - 1].Items)

\* Two deltas applied in order, the second one carrying an explicit delete.
C1_Witness ==
    /\ AppliedInOrder
    /\ LastRead.Count = 2
    /\ Len(Wire[1].Delta.Changed) > 0
    /\ Len(Wire[2].Delta.Deleted) > 0
    /\ IdSet(receiver.Items) = IdSet(Wire[2].Items)

\* C2 as stated: with every delta written applied in the order written, each
\* record of the receiver has the ReplicationKey of the sender's record with
\* the same ReplicationID.
C2_RoundTripKeysAsStated ==
    AppliedInOrder =>
        \A i \in 1..Len(receiver.Items) :
            \A j \in 1..Len(Wire[NextRead - 1].Items) :
                receiver.Items[i].ReplicationID = Wire[NextRead - 1].Items[j].ReplicationID
                => receiver.Items[i].ReplicationKey = Wire[NextRead - 1].Items[j].ReplicationKey

\* The number of deltas among the first n written that list id as changed.
RECURSIVE DeltasListing(_, _)
DeltasListing(n, id) ==
    IF n = 0 THEN 0
    ELSE DeltasListing(n - 1, id)
         + (IF Listings(ChangedIDs(Wire[n].Delta), id) > 0 THEN 1 ELSE 0)

\* C2, amended: with every delta written applied in the order written, each
\* record of the receiver has a ReplicationKey one less than the number of
\* applied deltas that listed it as changed, and that is at most the
\* ReplicationKey of the sender's record with the same ReplicationID.
C2_RoundTripKeys ==
    AppliedInOrder =>
        \A i \in 1..Len(receiver.Items) :
            /\ receiver.Items[i].ReplicationKey
                   = DeltasListing(NextRead - 1, receiver.Items[i].ReplicationID) - 1
            /\ \E j \in 1..Len(Wire[NextRead - 1].Items) :
                   /\ receiver.Items[i].ReplicationID = Wire[NextRead - 1].Items[j].ReplicationID
                   /\ receiver.Items[i].ReplicationKey <= Wire[NextRead - 1].Items[j].ReplicationKey

\* A record the sender marked dirty more often than deltas listed it: the
\* receiver's key is behind the sender's.
C2_Witness ==
    /\ AppliedInOrder
    /\ \E i \in 1..Len(receiver.Items) : \E j \in 1..Len(Wire[NextRead - 1].Items) :
           /\ receiver.Items[i].ReplicationID = Wire[NextRead - 1].Items[j].ReplicationID
           /\ receiver.Items[i].ReplicationKey < Wire[NextRead - 1].Items[j].ReplicationKey

\* The ids of Items in array order.
IdList(Items) == [i \in 1..Len(Items) |-> Items[i].ReplicationID]

\* This step is a read.
ReadStep == LastRead'.Count = LastRead.Count + 1

\* This step reads again the delta that the read before it applied.
IsRedelivery ==
    /\ ReadStep
    /\ NextRead' = NextRead
    /\ LastRead.Count >= 1
    /\ LastRead.bResult

\* C3: reading again a delta that was already applied adds no record to the
\* receiver's Items and removes none: the ids in the array stay as they were.
C3_RedeliveryKeepsIds ==
    [][IsRedelivery => IdList(receiver'.Items) = IdList(receiver.Items)]_vars

\* A delta with changed entries was applied a second time to records held.
C3_Witness ==
    /\ LastRead.Count > NextRead - 1
    /\ LastRead.bAllApplied
    /\ LastRead.NumChanged > 0
    /\ Len(receiver.Items) > 0

\* C4 as stated: reading again a delta that was already applied leaves the
\* ReplicationKey of every record of the receiver as it was.
C4_RedeliveryKeepsKeysAsStated ==
    [][IsRedelivery =>
          /\ Len(receiver'.Items) = Len(receiver.Items)
          /\ \A i \in 1..Len(receiver.Items) :
                 receiver'.Items[i].ReplicationKey = receiver.Items[i].ReplicationKey]_vars

\* C4, amended: reading again a delta that was already applied raises the
\* ReplicationKey of each record by one for every changed entry of the delta
\* that names it, and leaves the key of a record no entry names as it was.
C4_RedeliveryKeys ==
    [][IsRedelivery =>
          /\ Len(receiver'.Items) = Len(receiver.Items)
          /\ \A i \in 1..Len(receiver.Items) :
                 receiver'.Items[i].ReplicationKey
                     = receiver.Items[i].ReplicationKey
                       + Listings(LastRead'.ReadIDs, receiver.Items[i].ReplicationID)]_vars

\* After a second application a record's key is past what one application
\* gives a new record.
C4_Witness ==
    /\ LastRead.Count > NextRead - 1
    /\ LastRead.bAllApplied
    /\ \E i \in 1..Len(receiver.Items) :
           /\ receiver.Items[i].ReplicationKey >= 1
           /\ Listings(LastRead.ReadIDs, receiver.Items[i].ReplicationID) = 1

\* The read of this step is within both limits of the header.
WithinLimits(r) ==
    /\ r.NumDeleted <= MaxNumberOfAllowedDeletionsPerUpdate
    /\ r.NumChanged <= MaxNumberOfAllowedChangesPerUpdate

\* Record i of the receiver was stamped strictly between the base key and
\* the array key of the header read in this step.
StampedBetween(i) ==
    /\ receiver.Items[i].MostRecentArrayReplicationKey > LastRead'.BaseReplicationKey
    /\ receiver.Items[i].MostRecentArrayReplicationKey < LastRead'.ArrayReplicationKey

\* C5 as stated: on a connection that is not internally acknowledged, a
\* delta that is applied removes every record whose
\* MostRecentArrayReplicationKey was strictly between the header's base key
\* and its array key.
C5_ImplicitDeleteAsStated ==
    [][(ReadStep /\ LastRead'.bResult /\ ~bInternalAck) =>
          \A i \in 1..Len(receiver.Items) :
              StampedBetween(i)
              => receiver.Items[i].ReplicationID \notin IdSet(receiver'.Items)]_vars

\* C5, amended: on a connection that is not internally acknowledged, a delta
\* that is applied removes every record that none of its changed entries
\* names and whose MostRecentArrayReplicationKey was strictly between the
\* header's base key and its array key.
C5_ImplicitDelete ==
    [][(ReadStep /\ LastRead'.bResult /\ ~bInternalAck) =>
          \A i \in 1..Len(receiver.Items) :
              (/\ StampedBetween(i)
               /\ Listings(LastRead'.ReadIDs, receiver.Items[i].ReplicationID) = 0)
              => receiver.Items[i].ReplicationID \notin IdSet(receiver'.Items)]_vars

\* A delta that names no deleted id was applied and a record was removed.
C5_Witness ==
    /\ ~bInternalAck
    /\ LastRead.Count >= 2
    /\ LastRead.bResult
    /\ LastRead.NumDeleted = 0
    /\ \E n \in 1..Len(LastRead.Log) : LastRead.Log[n].what = "Items.RemoveAtSwap"

\* The place of an observed event in the order of PostReceiveCleanup.
Phase(what) ==
    CASE what = "Item.PreReplicatedRemove" -> 1
      [] what = "PreReplicatedRemove" -> 2
      [] what = "Item.PostReplicatedAdd" -> 3
      [] what = "PostReplicatedAdd" -> 4
      [] what = "Item.PostReplicatedChange" -> 5
      [] what = "PostReplicatedChange" -> 6
      [] what = "Items.RemoveAtSwap" -> 7

\* How many of the events observed in the read are of the given kind.
Observed(what) == Cardinality({n \in 1..Len(LastRead.Log) : LastRead.Log[n].what = what})

\* C6: a delta that is applied invokes the remove callbacks, then the add
\* callbacks, then the change callbacks, each group as the per-record calls
\* followed by one collection-level call, and removes records from the array
\* only after the last callback.
C6_CallbackOrder ==
    (LastRead.Count >= 1 /\ LastRead.bResult) =>
        /\ \A m, n \in 1..Len(LastRead.Log) :
               m < n => Phase(LastRead.Log[m].what) <= Phase(LastRead.Log[n].what)
        /\ Observed("PreReplicatedRemove") = 1
        /\ Observed("PostReplicatedAdd") = 1
        /\ Observed("PostReplicatedChange") = 1
        /\ Observed("Item.PostReplicatedAdd") + Observed("Item.PostReplicatedChange")
               = Len(LastRead.ReadIDs)
        /\ Observed("Items.RemoveAtSwap") > 0 => Observed("Item.PreReplicatedRemove") > 0

\* A read that invoked callbacks of all three groups and removed a record.
C6_Witness ==
    /\ LastRead.bResult
    /\ Observed("Item.PreReplicatedRemove") > 0
    /\ Observed("Item.PostReplicatedAdd") > 0
    /\ Observed("Item.PostReplicatedChange") > 0
    /\ Observed("Items.RemoveAtSwap") > 0

\* C7: a delta whose header announces more deleted ids or more changed
\* entries than the limit allows is rejected: the read fails with the reader
\* in error, no callback runs, and the receiver's records, its array key and
\* its identifier references stay as they were.
C7_OverLimitRejected ==
    [][(ReadStep /\ ~WithinLimits(LastRead')) =>
          /\ ~LastRead'.bResult
          /\ LastRead'.bReaderError
          /\ LastRead'.Log = <<>>
          /\ receiver'.Items = receiver.Items
          /\ receiver'.ArrayReplicationKey = receiver.ArrayReplicationKey
          /\ receiver'.GuidReferencesMap = receiver.GuidReferencesMap]_vars

\* A delta over the limit on changed entries was rejected by a receiver
\* that holds records.
C7_Witness ==
    /\ LastRead.NumChanged > MaxNumberOfAllowedChangesPerUpdate
    /\ LastRead.NumDeleted <= MaxNumberOfAllowedDeletionsPerUpdate
    /\ ~LastRead.bResult
    /\ Len(receiver.Items) > 0

\* C8: every delta the sender writes is within the two configured limits,
\* so that the receiver's check of the header accepts it.
C8_WriteWithinLimits ==
    \A n \in 1..Len(Wire) :
        /\ Len(Wire[n].Delta.Deleted) <= MaxNumberOfAllowedDeletionsPerUpdate
        /\ Len(Wire[n].Delta.Changed) <= MaxNumberOfAllowedChangesPerUpdate

\* The sender wrote a delta over the limit on changed entries and the
\* receiver's read of it failed with the reader in error.
C8_Witness ==
    /\ Len(Wire) >= 1
    /\ NextRead = Len(Wire) + 1
    /\ Len(Wire[Len(Wire)].Delta.Changed) > MaxNumberOfAllowedChangesPerUpdate
    /\ LastRead.Count >= 1
    /\ ~LastRead.bResult
    /\ LastRead.bReaderError

\* The payload of a changed entry of the delta read in this step failed to
\* decode.
PayloadFails(r) == WithinLimits(r) /\ r.ErrorAt >= 1

\* C9 as stated: when the payload of a changed entry fails to decode, the
\* read fails and the receiver's records and its array key stay as they were.
C9_DecodeErrorAsStated ==
    [][(ReadStep /\ PayloadFails(LastRead')) =>
          /\ ~LastRead'.bResult
          /\ receiver'.Items = receiver.Items
          /\ receiver'.ArrayReplicationKey = receiver.ArrayReplicationKey]_vars

\* C9, what the code does in place of the stated guarantee: when the payload
\* of a changed entry fails to decode, the read fails, the array key stays as
\* it was and no record is removed, but the entries up to and including the
\* failing one stay applied: each record
\* they name has its ReplicationKey raised by one per entry and carries the
\* header's array key, a record they name that was not held is appended, and
\* every other record is as it was.
C9_DecodeError ==
    [][(ReadStep /\ PayloadFails(LastRead')) =>
          /\ ~LastRead'.bResult
          /\ LastRead'.bReaderError
          /\ Len(LastRead'.ReadIDs) = LastRead'.ErrorAt
          /\ receiver'.ArrayReplicationKey = receiver.ArrayReplicationKey
          /\ Len(receiver'.Items) >= Len(receiver.Items)
          /\ \A i \in 1..Len(receiver.Items) :
                 LET id == receiver.Items[i].ReplicationID
                     c == Listings(LastRead'.ReadIDs, id)
                 IN  /\ receiver'.Items[i].ReplicationID = id
                     /\ receiver'.Items[i].ReplicationKey
                            = receiver.Items[i].ReplicationKey + c
                     /\ receiver'.Items[i].MostRecentArrayReplicationKey
                            = IF c > 0 THEN LastRead'.ArrayReplicationKey
                              ELSE receiver.Items[i].MostRecentArrayReplicationKey
          /\ \A i \in (Len(receiver.Items) + 1)..Len(receiver'.Items) :
                 LET id == receiver'.Items[i].ReplicationID
                 IN  /\ Listings(LastRead'.ReadIDs, id) > 0
                     /\ id \notin IdSet(receiver.Items)
                     /\ receiver'.Items[i].ReplicationKey
                            = Listings(LastRead'.ReadIDs, id) - 1
                     /\ receiver'.Items[i].MostRecentArrayReplicationKey
                            = LastRead'.ArrayReplicationKey]_vars

\* A failed read left behind a record that the failing delta appended and a
\* record held before with the failing delta's array key.
C9_Witness ==
    /\ LastRead.Count >= 2
    /\ PayloadFails(LastRead)
    /\ ~LastRead.bResult
    /\ Len(LastRead.ReadIDs) = 2
    /\ Len(receiver.Items) = 2
    /\ \A i \in 1..2 :
           receiver.Items[i].MostRecentArrayReplicationKey = LastRead.ArrayReplicationKey
    /\ \E i \in 1..2 : receiver.Items[i].ReplicationKey >= 1
    /\ \E i \in 1..2 : receiver.Items[i].ReplicationKey = 0

\* C10: when the payload of a changed entry fails to decode, no lifecycle
\* callback runs and no record is removed, whatever the delta's deleted ids
\* and keys say.
C10_DecodeErrorNoCleanup ==
    [][(ReadStep /\ PayloadFails(LastRead')) =>
          /\ LastRead'.Log = <<>>
          /\ Len(receiver'.Items) >= Len(receiver.Items)
          /\ \A i \in 1..Len(receiver.Items) :
                 receiver'.Items[i].ReplicationID = receiver.Items[i].ReplicationID]_vars

\* A failed read of a delta that named a deleted id, with a record still
\* held that is stamped below the delta's array key.
C10_Witness ==
    /\ PayloadFails(LastRead)
    /\ LastRead.NumDeleted > 0
    /\ LastRead.Log = <<>>
    /\ \E i \in 1..Len(receiver.Items) :
           /\ receiver.Items[i].MostRecentArrayReplicationKey < LastRead.ArrayReplicationKey
           /\ receiver.Items[i].MostRecentArrayReplicationKey > LastRead.BaseReplicationKey

\* C11: when a lifecycle callback changes the number of records while a
\* delta is reconciled, the read does not report success and removes no
\* record from the array.
C11_SizeChangeAborts ==
    (LastRead.Count >= 1 /\ receiver.bCallbackAdds /\ LastRead.Log # <<>>) =>
        /\ ~LastRead.bResult
        /\ Observed("Items.RemoveAtSwap") = 0

\* A read during which the callback added a local record reported success
\* and went on to remove a record.
C11_Witness ==
    /\ receiver.bCallbackAdds
    /\ LastRead.bResult
    /\ Observed("Items.RemoveAtSwap") > 0
    /\ \E i \in 1..Len(receiver.Items) : receiver.Items[i].ReplicationID = INDEX_NONE

\* This step is MarkItemDirty(Items[i]) called by application code.
IsMarkItemDirty(i) ==
    /\ i \in 1..Len(sender.Items)
    /\ Len(sender'.Items) = Len(sender.Items)
    /\ BaseStates' = BaseStates
    /\ LastRead' = LastRead
    /\ sender'.Items[i] # sender.Items[i]

\* The array key after one advance: the next value, or the one after it
\* when the next value is the sentinel.
Advanced(k) == IF k + 1 = INDEX_NONE THEN k + 2 ELSE k + 1

C13_NeverSentinel ==
    [][\A i \in 1..MaxItems :
          (IsMarkItemDirty(i) /\ sender.Items[i].ReplicationID = INDEX_NONE)
          => sender'.Items[i].ReplicationID # INDEX_NONE]_vars

\* A record that MarkItemDirty has acted on (its key is past the initial
\* one) still carries the sentinel as its id, with IDCounter moved past it.
C13_Witness ==
    /\ LastRead.Count = 0
    /\ BaseStates = <<>>
    /\ sender.IDCounter = 0
    /\ \E i \in 1..Len(sender.Items) :
           /\ sender.Items[i].ReplicationID = INDEX_NONE
           /\ sender.Items[i].ReplicationKey = 0

\* The ids assigned to records of Items (the sentinel marks a record as
\* unassigned).
AssignedIds(Items) == IdSet(Items) \ {INDEX_NONE}

IsMarkArrayDirty ==
    /\ sender'.ArrayReplicationKey # sender.ArrayReplicationKey
    /\ BaseStates' = BaseStates
    /\ LastRead' = LastRead
    /\ Len(sender'.Items) = Len(sender.Items)
    /\ \A i \in 1..Len(sender.Items) :
           sender'.Items[i].ReplicationKey = sender.Items[i].ReplicationKey

\* C15: MarkArrayDirty advances ArrayReplicationKey, clears ItemMap and
\* unsets both cached counts; every record, IDCounter and the
\* deferred-reference map stay as they were.
C15_MarkArrayDirty ==
    [][IsMarkArrayDirty =>
          /\ sender'.ArrayReplicationKey = Advanced(sender.ArrayReplicationKey)
          /\ sender'.ItemMap = EmptyMap
          /\ sender'.CachedNumItems = INDEX_NONE
          /\ sender'.CachedNumItemsToConsiderForWriting = INDEX_NONE
          /\ sender'.Items = sender.Items
          /\ sender'.IDCounter = sender.IDCounter
          /\ sender'.GuidReferencesMap = sender.GuidReferencesMap
          /\ sender'.DeltaFlags = sender.DeltaFlags]_vars

\* A collection that received records, one of them with a deferred
\* reference, was marked dirty as a whole: ItemMap is cleared and no record
\* has moved past the key the receipt gave it.
C15_Witness ==
    /\ LastRead.Count = 1
    /\ LastRead.bResult
    /\ BaseStates = <<>>
    /\ Len(sender.Items) = Len(LastRead.ReadIDs)
    /\ Len(sender.Items) > 0
    /\ \A i \in 1..Len(sender.Items) : sender.Items[i].ReplicationKey = 0
    /\ sender.GuidReferencesMap # EmptyMap
    /\ sender.ItemMap = EmptyMap
    /\ sender.CachedNumItems = INDEX_NONE

\* The observer's base state records the collection's current array key.
BaseStateIsCurrent ==
    /\ OldState # 0
    /\ BaseStates[OldState].ArrayReplicationKey = sender.ArrayReplicationKey

\* This step is a write that refreshed the cached item counts.
IsCountingWrite ==
    /\ sender'.CachedNumItems # sender.CachedNumItems
    /\ sender'.CachedNumItems # INDEX_NONE

\* C16: while the base state supplied records the collection's current
\* ArrayReplicationKey, a write puts no delta on the wire, creates no base
\* state object and leaves the observer with the base state object it had;
\* the records, the ArrayReplicationKey and IDCounter stay as they were.
C16_UnchangedFastPath ==
    [][BaseStateIsCurrent =>
          /\ Wire' = Wire
          /\ BaseStates' = BaseStates
          /\ OldState' = OldState
          /\ IsCountingWrite =>
                 /\ sender'.Items = sender.Items
                 /\ sender'.ArrayReplicationKey = sender.ArrayReplicationKey
                 /\ sender'.IDCounter = sender.IDCounter
                 /\ sender'.CachedNumItems = Len(sender.Items)]_vars

\* A write took the fast path although application code had added a record
\* without marking it: the counts are cached, the base state is the old one
\* and does not list the record.
C16_Witness ==
    /\ BaseStateIsCurrent
    /\ Len(Wire) = 1
    /\ sender.CachedNumItems = Len(sender.Items)
    /\ Len(BaseStates[OldState].IDToCLMap) < Len(sender.Items)

\* This step is a poll for unmapped objects.
IsPoll ==
    /\ mapped' = mapped
    /\ LastRead'.Count = LastRead.Count
    /\ receiver'.Items = receiver.Items

\* The deferred entries whose record is in the receiver's Items.
TrackedRecords ==
    {id \in DOMAIN receiver.GuidReferencesMap :
        \E i \in 1..Len(receiver.Items) : receiver.Items[i].ReplicationID = id}

\* The positions of log at which the event what is recorded for record id.
EventsFor(log, what, id) == {n \in 1..Len(log) : log[n] = Event(what, id)}

\* C17: a poll re-reads a tracked record whose entry has an unmapped guid
\* that is now resolvable from the captured bits and then calls that record's
\* PostReplicatedChange, each exactly once; for a tracked record none of whose
\* unmapped guids is resolvable the poll re-reads nothing and calls nothing.
C17_PollReDecodes ==
    [][IsPoll =>
          \A id \in TrackedRecords :
              IF receiver.GuidReferencesMap[id].UnmappedGUIDs \cap mapped # {}
              THEN /\ Cardinality(EventsFor(LastRead'.Log, "NetSerializeStruct", id)) = 1
                   /\ Cardinality(EventsFor(LastRead'.Log, "Item.PostReplicatedChange", id)) = 1
                   /\ \A m \in EventsFor(LastRead'.Log, "NetSerializeStruct", id) :
                          \A n \in EventsFor(LastRead'.Log, "Item.PostReplicatedChange", id) :
                              m < n
              ELSE \A n \in 1..Len(LastRead'.Log) : LastRead'.Log[n].arg # id]_vars

\* A poll re-read record 1 and called its PostReplicatedChange while record 2
\* stays tracked with a guid that has no object yet.
C17_Witness ==
    /\ EventsFor(LastRead.Log, "NetSerializeStruct", 1) # {}
    /\ EventsFor(LastRead.Log, "NetSerializeStruct", 2) = {}
    /\ 2 \in TrackedRecords
    /\ receiver.GuidReferencesMap[2].UnmappedGUIDs # {}

\* The entry of record id tracks the unmapped guid g and nothing else.
TrackedForOnly(id, g) ==
    /\ receiver.GuidReferencesMap[id].UnmappedGUIDs = {g}
    /\ receiver.GuidReferencesMap[id].MappedDynamicGUIDs = {}

C19_BoundedRoundTrip ==
    Codec.Phase = "loaded" =>
        /\ Codec.Outcome = "returned"
        /\ IF Len(Codec.Array) <= Codec.MaxNum
           THEN /\ Codec.Loaded = Codec.Array
                /\ Codec.bSaveResult
                /\ Codec.bLoadResult
           ELSE /\ Codec.Loaded = SubSeq(Codec.Array, 1, Codec.MaxNum)
                /\ ~Codec.bSaveResult

\* An array of three elements saved with MaxNum = 2 was loaded as its first
\* two elements.
C19_Witness ==
    /\ Codec.Phase = "loaded"
    /\ Codec.MaxNum = 2
    /\ Codec.Array = <<255, 1, 255>>
    /\ Codec.Loaded = <<255, 1>>
    /\ ~Codec.bSaveResult

\* The count field of the bits loaded, when the bits hold one.
CountField == SubSeq(Codec.Bits, 1, CeilLogTwo(Codec.MaxNum) + 1)
HasCountField == Len(Codec.Bits) >= CeilLogTwo(Codec.MaxNum) + 1

\* The count field has 32 bits and the last is set: it carries a value of at
\* least 2^31, above every MaxNum.
CarriesSignBit == Len(CountField) = 32 /\ CountField[32] = 1

\* min(c, MaxNum) for the value c the count field carries.
ClampedCount ==
    IF CarriesSignBit \/ ValueOf(CountField) > Codec.MaxNum
    THEN Codec.MaxNum
    ELSE ValueOf(CountField)

\* C20 as stated: whatever count the count field carries, the load returns
\* an array of exactly min(c, MaxNum) elements, never more than MaxNum.
C20_DecodeClampAsStated ==
    (Codec.Phase \in {"loaded", "decoded"} /\ HasCountField) =>
        /\ Codec.Outcome = "returned"
        /\ Len(Codec.Loaded) = ClampedCount
        /\ Len(Codec.Loaded) <= Codec.MaxNum

\* C20 for count fields that do not set the sign bit of the int32 they are
\* read into: the load returns an array of exactly min(c, MaxNum) elements,
\* never more than MaxNum, and returns false when c exceeds MaxNum.
C20_DecodeClamp ==
    (Codec.Phase \in {"loaded", "decoded"} /\ HasCountField /\ ~CarriesSignBit) =>
        /\ Codec.Outcome = "returned"
        /\ Len(Codec.Loaded) = ClampedCount
        /\ Len(Codec.Loaded) <= Codec.MaxNum
        /\ ValueOf(CountField) > Codec.MaxNum => ~Codec.bLoadResult

\* A count field of 32 bits with the sign bit set was loaded: the count read
\* is negative, passes the clamp and reaches AddDefaulted.
C20_Witness ==
    /\ Codec.Phase = "decoded"
    /\ HasCountField
    /\ CarriesSignBit
    /\ Codec.Outcome # "returned"

\* A count of 3 arrived for MaxNum = 2 and the array loaded has 2 elements.
C20_ClampWitness ==
    /\ Codec.Phase = "decoded"
    /\ Codec.MaxNum = 2
    /\ HasCountField
    /\ ValueOf(CountField) = 3
    /\ Len(Codec.Loaded) = 2
    /\ ~Codec.bLoadResult

\* The bits of the zero vector in either packed format: a header of five bits
\* for Bits = 0, then 2 of 4 for each component, low bit first.
ZeroVectorBits == <<0, 0, 0, 0, 0, 0, 1, 0, 1, 0, 1>>

\* C21: for a vector with a not-a-number component WritePackedVector writes
\* exactly the bits of the zero vector, once, and returns false; what is
\* read back from them is the zero vector.
C21_NaNSanitised ==
    (Codec.Phase \in {"vector written", "vector read"} /\ ContainsNaN(Codec.Value)) =>
        /\ Codec.Bits = ZeroVectorBits
        /\ Codec.Bits = WritePackedVector(Codec.Format[1], Codec.Format[2],
                                          <<Float(0), Float(0), Float(0)>>, NewWriter).Ar.Bits
        /\ ~Codec.bWriteResult
        /\ Codec.Phase = "vector read" => \A i \in 1..3 : Codec.Read[i].num = 0

\* A vector with one component at 2^20 and one not a number was written and
\* read back as zero.
C21_Witness ==
    /\ Codec.Phase = "vector read"
    /\ Codec.Value = <<Float(2^20), NaN, Float(-1)>>
    /\ Codec.Bits = ZeroVectorBits
    /\ ~Codec.bWriteResult
    /\ Codec.Read[1].num = 0

\* The quotient r.num / r.den is within steps / r.den of v.num / v.den.
Within(r, v, steps) ==
    Abs(r.num * v.den - v.num * r.den) <= steps * v.den

\* C22: what ReadFixedCompressedFloat reads from what WriteFixedCompressedFloat
\* wrote for a value of magnitude at most MaxValue is within one quantization
\* step of the value (MaxValue / MaxBitValue when the format scales down, one
\* over the whole scale when it scales up), without a clamp; and whatever
\* bits arrive, ReadFixedCompressedFloat and ReadPackedVector return true
\* with a finite value.
C22_QuantizationAccuracy ==
    /\ Codec.Phase = "float read" =>
           /\ Codec.bWriteResult
           /\ Within(Codec.Read, Codec.Value,
                     IF Codec.Format[1] > MaxBitValue(Codec.Format[2])
                     THEN Codec.Format[1] ELSE 1)
    /\ Codec.Phase \in {"float read", "float decoded"} =>
           /\ Codec.bReadResult
           /\ Codec.Read.den > 0
    /\ Codec.Phase \in {"vector read", "vector decoded"} =>
           /\ Codec.bReadResult
           /\ \A i \in 1..3 : Codec.Read[i].den > 0

\* 5 was written with MaxValue = 9 in 4 bits and read back as 27 / 7.
C22_Witness ==
    /\ Codec.Phase = "float read"
    /\ Codec.Format = <<9, 4>>
    /\ Codec.Value = [num |-> 20, den |-> 4]
    /\ Codec.Read = [num |-> 27, den |-> 7]

\* Bits that end inside the value were read by ReadFixedCompressedFloat.
C22_DecodeWitness ==
    /\ Codec.Phase = "float decoded"
    /\ Codec.Format = <<9, 4>>
    /\ Codec.Bits = <<1, 1>>
    /\ Codec.Read = [num |-> -45, den |-> 7]

\* The components are whole numbers of magnitude at most limit.
ComponentsWithin(lo, hi) ==
    \A i \in 1..3 : ~Codec.Value[i].nan /\ lo <= Codec.Value[i].v /\ Codec.Value[i].v <= hi

\* The write reported no clamp and the read gave back the vector written.
ReadBackExactly ==
    /\ Codec.bWriteResult
    /\ \A i \in 1..3 : Codec.Read[i].num = Codec.Value[i].v * Codec.Read[i].den

\* C23 as stated: SerializePackedVector<1, 20> writes without a clamp and
\* reads back exactly every vector of whole components between -2^20 and 2^20.
C23_ValidRangeAsStated ==
    (Codec.Phase = "vector read" /\ Codec.Format = <<1, 20>>
        /\ ComponentsWithin(-(2^20), 2^20)) => ReadBackExactly

\* C23 for the range the code serves: SerializePackedVector<1, 20> writes
\* without a clamp and reads back exactly every vector of whole components
\* between -2^20 and 2^20 - 1.
C23_ValidRange ==
    (Codec.Phase = "vector read" /\ Codec.Format = <<1, 20>>
        /\ ComponentsWithin(-(2^20), 2^20 - 1)) => ReadBackExactly

\* The vector (2^20, 0, -2^20) was written with a clamp and read back as
\* (2^20 - 1, 0, -2^20).
C23_Witness ==
    /\ Codec.Phase = "vector read"
    /\ Codec.Format = <<1, 20>>
    /\ Codec.Value = <<Float(2^20), Float(0), Float(-(2^20))>>
    /\ ~Codec.bWriteResult
    /\ Codec.Read[1].num = 2^20 - 1
    /\ Codec.Read[3].num = -(2^20)

\* The ids of the records the sender had when it wrote Wire[k].
WrittenIds(k) ==
    {Wire[k].Items[i].ReplicationID : i \in 1..Len(Wire[k].Items)} \ {INDEX_NONE}

\* The ids of the records the sender had at an earlier write and no longer
\* had when it wrote Wire[k].
RemovedBefore(k) == UNION {WrittenIds(j) : j \in 1..(k - 1)} \ WrittenIds(k)

\* The receiver has read Wire[k] and every delta written before it.
AppliedUpTo(k) == \A j \in 1..k : j \in Applied

\* C24: whatever the order in which the deltas arrived, once the receiver has
\* applied a delta and every delta written before it, no record the sender
\* had removed before writing that delta is in the receiver's Items.
C24_OutOfOrderTolerated ==
    \A k \in 1..Len(Wire) :
        (AppliedUpTo(k) /\ LastRead.bAllApplied) =>
            \A i \in 1..Len(receiver.Items) :
                receiver.Items[i].ReplicationID \notin RemovedBefore(k)

\* Two deltas were applied, the later one first, and the receiver holds a
\* record that the sender had removed before it wrote the later one.
C24_Witness ==
    /\ Len(Wire) = 2
    /\ Applied = {1, 2}
    /\ LastRead.bAllApplied
    /\ LastRead.ArrayReplicationKey = Wire[1].Delta.ArrayReplicationKey
    /\ \A k \in 1..2 : Wire[k].Delta.ArrayReplicationKey = BaseStates[k].ArrayReplicationKey
    /\ Wire[2].Delta.BaseReplicationKey = Wire[1].Delta.ArrayReplicationKey
    /\ \E i \in 1..Len(receiver.Items) :
           receiver.Items[i].ReplicationID \in RemovedBefore(2)

\* A write was made and was not short-circuited.
HasWritten == Codec.Phase = "written" /\ Codec.Result.bWrote

\* Record i of the collection written is considered: the write is a server's,
\* or the record had an id when the write began.
IsConsidered(i) ==
    (~Codec.bIsWritingOnClient) \/ Codec.ser.Items[i].ReplicationID # INDEX_NONE
ConsideredRecords == {i \in 1..Len(Codec.ser.Items) : IsConsidered(i)}

\* Record i, as the write left it, is absent from the old map or has a key
\* other than the one the old map holds for its id.
DiffersFromOldMap(i) ==
    LET Item == Codec.Result.ser.Items[i]
        OldMap == Codec.OldState.IDToCLMap
    IN  \/ ~Codec.bHasOldState
        \/ \A p \in 1..Len(OldMap) :
               OldMap[p].ID = Item.ReplicationID => OldMap[p].Key # Item.ReplicationKey

\* C25: on a write that is not short-circuited the changed list holds, once
\* for each, the considered records that are absent from the old map or whose
\* key differs from the old map's, and nothing else; without an old base state
\* every considered record is listed, the base key written is INDEX_NONE and
\* the deleted list is empty.
C25_ChangedClassification ==
    HasWritten =>
        LET Delta == Codec.Result.Delta
            Items == Codec.Result.ser.Items
            ChangedRecords == {i \in ConsideredRecords : DiffersFromOldMap(i)}
            Ids == {Delta.Changed[n].ID : n \in 1..Len(Delta.Changed)}
                       \cup {Items[i].ReplicationID : i \in 1..Len(Items)}
        IN  /\ \A id \in Ids :
                   Cardinality({n \in 1..Len(Delta.Changed) : Delta.Changed[n].ID = id})
                       = Cardinality({i \in ChangedRecords : Items[i].ReplicationID = id})
            /\ (~Codec.bHasOldState) =>
                   /\ Len(Delta.Changed) = Cardinality(ConsideredRecords)
                   /\ Delta.BaseReplicationKey = INDEX_NONE
                   /\ Delta.Deleted = <<>>

\* A write on a client against an old base state: one record is not
\* considered, one is unchanged and one is listed.
C25_Witness ==
    /\ HasWritten
    /\ Codec.bHasOldState
    /\ Codec.bIsWritingOnClient
    /\ Len(Codec.ser.Items) = 3
    /\ Cardinality(ConsideredRecords) = 2
    /\ Len(Codec.Result.Delta.Changed) = 1

\* A first write on a server: records without an id are given one and listed.
C25_FirstWriteWitness ==
    /\ HasWritten
    /\ ~Codec.bHasOldState
    /\ ~Codec.bIsWritingOnClient
    /\ \E i \in 1..Len(Codec.ser.Items) : Codec.ser.Items[i].ReplicationID = INDEX_NONE
    /\ Len(Codec.Result.Delta.Changed) = Len(Codec.ser.Items)
    /\ Len(Codec.ser.Items) >= 2

\* The considered records have pairwise distinct ids once the walk is over.
ConsideredIdsDistinct ==
    \A i, j \in ConsideredRecords :
        Codec.Result.ser.Items[i].ReplicationID = Codec.Result.ser.Items[j].ReplicationID
            => i = j

\* The ids the old map holds that no considered record carries.
GenuinelyDeleted ==
    {Codec.OldState.IDToCLMap[p].ID : p \in 1..Len(Codec.OldState.IDToCLMap)}
        \ {Codec.Result.ser.Items[i].ReplicationID : i \in ConsideredRecords}

\* C26: on a write against an old base state whose considered records have
\* pairwise distinct ids, the deleted list holds exactly once each id that the
\* old map holds and no considered record carries, and no other id; DeleteCount
\* cuts none of them off.
C26_DeletedSet ==
    (HasWritten /\ Codec.bHasOldState /\ ConsideredIdsDistinct) =>
        LET Deleted == Codec.Result.Delta.Deleted
        IN  /\ {Deleted[n] : n \in 1..Len(Deleted)} = GenuinelyDeleted
            /\ Len(Deleted) = Cardinality(GenuinelyDeleted)

\* Two ids of the old map are gone, a third record is still there and a new
\* record was added.
C26_Witness ==
    /\ HasWritten
    /\ Codec.bHasOldState
    /\ ConsideredIdsDistinct
    /\ Len(Codec.Result.Delta.Deleted) = 2
    /\ Cardinality(ConsideredRecords) >= 2
    /\ \E i \in ConsideredRecords :
           PairsContains(Codec.OldState.IDToCLMap, Codec.Result.ser.Items[i].ReplicationID)
    /\ \E i \in ConsideredRecords :
           ~PairsContains(Codec.OldState.IDToCLMap, Codec.Result.ser.Items[i].ReplicationID)

\* C27: the array key in the header of every delta written equals the
\* ArrayReplicationKey of the base state that write published, also when the
\* walk gave an id to a record that had none.
C27_HeaderKeyMatchesPublished ==
    \A k \in 1..Len(Wire) :
        Wire[k].Delta.ArrayReplicationKey = BaseStates[k].ArrayReplicationKey

\* A delta whose changed list holds a record the walk gave its id to, and whose
\* header key is behind the key of the base state published with it.
C27_Witness ==
    \E k \in 1..Len(Wire) :
        /\ Wire[k].Delta.Changed # <<>>
        /\ BaseStates[k].IDToCLMap # <<>>
        /\ Wire[k].Delta.ArrayReplicationKey < BaseStates[k].ArrayReplicationKey

\* Every base state that exists is left as it was.
BaseStatesKept ==
    /\ Len(BaseStates') >= Len(BaseStates)
    /\ \A i \in 1..Len(BaseStates) : BaseStates'[i] = BaseStates[i]

\* C28: no step (write, read, poll, marking) changes the id-to-key map or the
\* ArrayReplicationKey of a base state handed back earlier, and a write that
\* puts a delta on the wire hands back a state object created by that write.
C28_BaseStatesImmutable ==
    [][/\ BaseStatesKept
       /\ Len(Wire') > Len(Wire) =>
              /\ Len(BaseStates') = Len(BaseStates) + 1
              /\ OldState' = Len(BaseStates')]_vars

\* A write against the state the first write handed back has handed back a
\* second state object with another map, and the receiver has read a delta.
C28_Witness ==
    /\ Len(BaseStates) = 2
    /\ Len(Wire) = 2
    /\ Wire[2].Delta.BaseReplicationKey = BaseStates[1].ArrayReplicationKey
    /\ BaseStates[1].IDToCLMap # BaseStates[2].IDToCLMap
    /\ BaseStates[1].IDToCLMap # <<>>
    /\ OldState = 2
    /\ Applied # {}

\* A changed entry was decoded and the reader is not in error.
EntryDecoded == Codec.Phase = "decoded" /\ ~Codec.bReaderError

\* C29: after a changed entry is decoded without reader error, the
\* deferred-reference map holds an entry for the record's id exactly when the
\* decode reported an unresolved or a resolved-dynamic identifier, and then the
\* entry's two sets are the reported ones and its buffer is the payload read.
C29_DeferredEntryCreation ==
    EntryDecoded =>
        LET e == Codec.Entry
            Unmapped == GetTrackedUnmappedGuids(e.Payload, mapped)
            MappedDynamic == GetTrackedDynamicMappedGuids(e.Payload, mapped)
            G == receiver.GuidReferencesMap
        IN  /\ (e.ID \in DOMAIN G) <=> (Unmapped # {} \/ MappedDynamic # {})
            /\ e.ID \in DOMAIN G =>
                   /\ G[e.ID].UnmappedGUIDs = Unmapped
                   /\ G[e.ID].MappedDynamicGUIDs = MappedDynamic
                   /\ G[e.ID].Buffer = e.Payload

\* An entry with an unresolved and a resolved-dynamic identifier was decoded
\* and is tracked.
C29_Witness ==
    /\ EntryDecoded
    /\ Codec.Entry.Payload = {"dyn", "stat"}
    /\ mapped = {"dyn"}
    /\ Codec.Entry.ID \in DOMAIN receiver.GuidReferencesMap
    /\ receiver.GuidReferencesMap[Codec.Entry.ID].UnmappedGUIDs = {"stat"}

\* An entry for a record that was tracked reported nothing and the record is
\* tracked no more, while another record still is.
C29_RemovedWitness ==
    /\ EntryDecoded
    /\ Codec.Entry.Payload = {"stat"}
    /\ mapped = {"stat"}
    /\ Len(receiver.Items) = 1
    /\ receiver.Items[1].ReplicationKey = 1
    /\ receiver.GuidReferencesMap = EmptyMap

\* The ids of the records in the receiver's Items after the step.
RecordIdsAfter == {receiver'.Items[i].ReplicationID : i \in 1..Len(receiver'.Items)}

\* C30: when a poll returns, every deferred entry left has an unresolved or a
\* resolved-dynamic identifier and is keyed by the id of a record in Items;
\* the entries of records that are gone are dropped, and nothing is re-read
\* and no callback is made for them.
C30_TrackingAfterPoll ==
    [][IsPoll =>
          /\ \A id \in DOMAIN receiver'.GuidReferencesMap :
                 /\ \/ receiver'.GuidReferencesMap[id].UnmappedGUIDs # {}
                    \/ receiver'.GuidReferencesMap[id].MappedDynamicGUIDs # {}
                 /\ id \in RecordIdsAfter
          /\ \A id \in (DOMAIN receiver.GuidReferencesMap) \ TrackedRecords :
                 \A n \in 1..Len(LastRead'.Log) : LastRead'.Log[n].arg # id]_vars

\* A poll has re-read the captured bits of record 1 and called
\* PostReplicatedChange for it although no record of Items has id 1; the entry
\* is still in the map.
C30_Witness ==
    /\ EventsFor(LastRead.Log, "NetSerializeStruct", 1) # {}
    /\ EventsFor(LastRead.Log, "Item.PostReplicatedChange", 1) # {}
    /\ 1 \in DOMAIN receiver.GuidReferencesMap
    /\ 1 \notin TrackedRecords
    /\ receiver.Items # <<>>

\* ItemMap of ser maps every id it holds to a record with that id, and holds
\* the id of every record that has one.
IndexReflectsItems(ser) ==
    /\ \A id \in DOMAIN ser.ItemMap :
           /\ ser.ItemMap[id] \in 1..Len(ser.Items)
           /\ ser.Items[ser.ItemMap[id]].ReplicationID = id
    /\ \A i \in 1..Len(ser.Items) :
           ser.Items[i].ReplicationID # INDEX_NONE =>
               ser.Items[i].ReplicationID \in DOMAIN ser.ItemMap

\* C31: after any receives (applied or failed), polls and marking calls on a
\* receiver, the ItemMap that the next receive or poll looks ids up in, which
\* is the one ConditionalRebuildItemMap leaves, maps every id to a record with
\* that id and misses no record that has an id.
C31_IndexValidity == IndexReflectsItems(ConditionalRebuildItemMap(receiver))

\* A delta removed a record by swapping the last one into its place; the map
\* was emptied and a record is left.
C31_Witness ==
    /\ \E n \in 1..Len(LastRead.Log) : LastRead.Log[n].what = "Items.RemoveAtSwap"
    /\ LastRead.Count = 1
    /\ Len(receiver.Items) >= 1
    /\ receiver.ItemMap = EmptyMap

\* A receive failed after it had added a record, and the map is used as it is.
C31_FailedWitness ==
    /\ LastRead.bReaderError
    /\ Len(receiver.Items) = 2
    /\ MapNum(receiver.ItemMap) = 2

\* The record carries a ReplicationID.
HasReplicationID(Item) == Item.ReplicationID # INDEX_NONE

\* The write made, as it would be made on the collection without its records
\* that carry no id.
WriteWithoutPredictive ==
    WriteFastArray([Codec.ser EXCEPT !.Items = SelectSeq(Codec.ser.Items, HasReplicationID)],
                   Codec.OldState, Codec.bHasOldState, TRUE)

\* C32: on a write with bIsWritingOnClient set, a record without an id keeps
\* its unassigned id and its ReplicationKey; when the write is not
\* short-circuited no changed entry and no pair of the new base state names
\* the unassigned id, and the delta and the new map are the ones the write
\* would produce were those records not in the collection (they are neither
\* listed nor counted for the delete count).
C32_PredictiveInvisible ==
    (Codec.Phase = "written" /\ Codec.bIsWritingOnClient) =>
        /\ \A i \in 1..Len(Codec.ser.Items) :
               ~HasReplicationID(Codec.ser.Items[i]) =>
                   Codec.Result.ser.Items[i] = Codec.ser.Items[i]
        /\ Codec.Result.bWrote =>
               /\ \A n \in 1..Len(Codec.Result.Delta.Changed) :
                      Codec.Result.Delta.Changed[n].ID # INDEX_NONE
               /\ \A p \in 1..Len(Codec.Result.NewState.IDToCLMap) :
                      Codec.Result.NewState.IDToCLMap[p].ID # INDEX_NONE
               /\ Codec.Result.Delta = WriteWithoutPredictive.Delta
               /\ Codec.Result.NewState = WriteWithoutPredictive.NewState

\* A client wrote a collection holding a record without an id and a record
\* that changed, against an old state naming an id that is gone.
C32_Witness ==
    /\ HasWritten
    /\ Codec.bIsWritingOnClient
    /\ \E i \in 1..Len(Codec.ser.Items) : ~HasReplicationID(Codec.ser.Items[i])
    /\ Len(Codec.Result.Delta.Changed) = 1
    /\ Len(Codec.Result.Delta.Deleted) = 2

\* The step is a read of an incoming delta that was applied in full.
IsAppliedRead ==
    /\ LastRead'.Count = LastRead.Count + 1
    /\ LastRead'.bResult
    /\ ~LastRead'.bReaderError

\* The collection-level callbacks, which are handed FinalSize.
CollectionCallbacks == {"PreReplicatedRemove", "PostReplicatedAdd", "PostReplicatedChange"}

\* The deleted list of the delta read names no id twice.
NoIdNamedTwice(Deleted) ==
    \A m, n \in 1..Len(Deleted) : Deleted[m] = Deleted[n] => m = n

FinalSizeIsSizeAfter ==
    \A n \in 1..Len(LastRead'.Log) :
        LastRead'.Log[n].what \in CollectionCallbacks =>
            LastRead'.Log[n].arg = Len(receiver'.Items)

\* C33: for every delta applied, the FinalSize handed to the collection-level
\* PreReplicatedRemove, PostReplicatedAdd and PostReplicatedChange callbacks
\* is the number of records in Items once the delta's removals are done,
\* whatever deleted list the delta carries.
C33_FinalSize == [][IsAppliedRead => FinalSizeIsSizeAfter]_vars

\* The step is the read of delta d, no payload failing.
IsReadOf(d) ==
    /\ receiver' = ReadFastArray(receiver, d, 0, bInternalAck, mapped).ser
    /\ LastRead' = Observe(d, 0, ReadFastArray(receiver, d, 0, bInternalAck, mapped))

\* The same with the deltas whose deleted list names an id twice left aside.
C33_FinalSizeDistinctIds ==
    [][\A d \in IndexDeltas :
           (IsAppliedRead /\ IsReadOf(d) /\ NoIdNamedTwice(d.Deleted)) => FinalSizeIsSizeAfter]_vars

\* A delta whose deleted list of two names was applied, one record was
\* removed, and the callbacks were handed a FinalSize that is not the size of
\* Items.
C33_Witness ==
    /\ LastRead.Count = 1
    /\ LastRead.bResult
    /\ ~LastRead.bReaderError
    /\ LastRead.NumDeleted = 2
    /\ \E n \in 1..Len(LastRead.Log) :
           /\ LastRead.Log[n].what = "PreReplicatedRemove"
           /\ LastRead.Log[n].arg # Len(receiver.Items)

\* The ReplicationIDs of the records of Items.
ItemIds(Items) == {Items[i].ReplicationID : i \in 1..Len(Items)}

\* No two records of Items carry the same ReplicationID.
IdsDistinct(Items) ==
    \A i, j \in 1..Len(Items) : Items[i].ReplicationID = Items[j].ReplicationID => i = j

\* The ids delta d names: as deleted, and as changed.
DeletedIds(d) == {d.Deleted[n] : n \in 1..Len(d.Deleted)}
ChangedIds(d) == {d.Changed[n].ID : n \in 1..Len(d.Changed)}

\* The ids d's read is to remove: the ones its deleted list names that are
\* found locally, and the ones of the records last received in a delta that d
\* neither builds on nor is (the implicit deletes, looked for when the
\* connection is not reliable).
IdsToRemove(d) ==
    (DeletedIds(d) \cap ItemIds(receiver.Items))
    \cup (IF bInternalAck THEN {}
          ELSE {receiver.Items[i].ReplicationID : i \in
                   {i \in 1..Len(receiver.Items) :
                       /\ receiver.Items[i].ReplicationID \notin ChangedIds(d)
                       /\ receiver.Items[i].MostRecentArrayReplicationKey < d.ArrayReplicationKey
                       /\ receiver.Items[i].MostRecentArrayReplicationKey > d.BaseReplicationKey}})

\* The number of per-record PreReplicatedRemove callbacks for the record id.
RemoveCallbacks(Log, id) ==
    Cardinality({n \in 1..Len(Log) : Log[n] = Event("Item.PreReplicatedRemove", id)})

RemovesExactly(d) ==
    LET After == (ItemIds(receiver.Items) \cup ChangedIds(d)) \ IdsToRemove(d)
    IN /\ ItemIds(receiver'.Items) = After
       /\ Len(receiver'.Items) = Cardinality(After)
       /\ \A id \in ItemIds(receiver.Items) \cup ChangedIds(d) :
              RemoveCallbacks(LastRead'.Log, id) = IF id \in IdsToRemove(d) THEN 1 ELSE 0

\* C37: a delta applied removes exactly the records its deleted list names
\* and that are found locally, and the implicit deletes, and calls the
\* per-record PreReplicatedRemove once for each of them, whatever deleted
\* list the delta carries.
C37_ExactRemoval ==
    [][\A d \in IndexDeltas :
           (IsAppliedRead /\ IsReadOf(d) /\ IdsDistinct(receiver.Items)) => RemovesExactly(d)]_vars

\* The same with the deltas whose deleted list names an id twice left aside.
C37_ExactRemovalDistinctIds ==
    [][\A d \in IndexDeltas :
           (IsAppliedRead /\ IsReadOf(d) /\ IdsDistinct(receiver.Items) /\ NoIdNamedTwice(d.Deleted))
               => RemovesExactly(d)]_vars

\* A delta naming two deleted ids and changing nothing was applied to a
\* receiver of two records received with the delta's base; both records are
\* gone and the log holds two per-record PreReplicatedRemove callbacks for
\* the same id.
C37_Witness ==
    /\ LastRead.Count = 1
    /\ LastRead.bResult
    /\ LastRead.NumDeleted = 2
    /\ LastRead.NumChanged = 0
    /\ LastRead.BaseReplicationKey = 1
    /\ receiver.Items = <<>>
    /\ Cardinality({n \in 1..Len(LastRead.Log) : LastRead.Log[n].what = "Items.RemoveAtSwap"}) = 2
    /\ \E id \in WireIDs : RemoveCallbacks(LastRead.Log, id) = 2

\* ------------------------------------------------------ serialization mode

\* FastArrayDeltaSerialize with a writer, for a caller that supports delta
\* struct serialization or not: the dispatch on IsUsingDeltaSerialization,
\* the first-serialization block, and the write.  The write of
\* FastArrayDeltaSerialize_DeltaSerializeStructs keeps the books with the same
\* helpers and hands the payloads to the caller's callback; it does not
\* touch DeltaFlags.
FastArrayDeltaSerializeWrite(ser, Old, bHasOldState, bIsWritingOnClient, bSupports) ==
    IF IsUsingDeltaSerialization \in ser.DeltaFlags
    THEN WriteFastArray(ser, Old, bHasOldState, bIsWritingOnClient)
    ELSE WriteFastArray([ser EXCEPT !.DeltaFlags = FirstSerialization(ser.DeltaFlags, bSupports)],
                        Old, bHasOldState, bIsWritingOnClient)

\* What is remembered of the calls: whether the last writer supported delta
\* struct serialization, and whether SetDeltaSerializationEnabled was called
\* on a collection already serialized.
NoFlagCalls == [Phase |-> "flags", bSupports |-> FALSE, bSetAfter |-> FALSE]

InitFlags ==
    /\ sender = NewSerializer
    /\ BaseStates = <<>>
    /\ OldState = 0
    /\ Wire = <<>>
    /\ receiver = NewSerializer
    /\ NextRead = 1
    /\ mapped = {}
    /\ bInternalAck = FALSE
    /\ LastRead = NoRead
    /\ Applied = {}
    /\ Codec = NoFlagCalls

\* Application code calls SetDeltaSerializationEnabled on the sender.
SenderSetDeltaSerializationEnabled(bEnabled) ==
    /\ sender' = [sender EXCEPT !.DeltaFlags = SetDeltaSerializationEnabled(@, bEnabled)]
    /\ Codec' = [Codec EXCEPT !.bSetAfter = @ \/ HasBeenSerialized \in sender.DeltaFlags]
    /\ UNCHANGED <<BaseStates, OldState, Wire, receiver, NextRead, mapped, bInternalAck, Applied, LastRead>>

\* Application code calls SetDeltaSerializationEnabled on the receiver.
ReceiverSetDeltaSerializationEnabled(bEnabled) ==
    /\ receiver' = [receiver EXCEPT !.DeltaFlags = SetDeltaSerializationEnabled(@, bEnabled)]
    /\ Codec' = [Codec EXCEPT !.bSetAfter = @ \/ HasBeenSerialized \in receiver.DeltaFlags]
    /\ UNCHANGED <<sender, BaseStates, OldState, Wire, NextRead, mapped, bInternalAck, Applied, LastRead>>

\* The driver writes the sender's collection; it supports delta struct
\* serialization or not.
WriteSupporting(bSupports) ==
    /\ Len(Wire) < MaxWrites
    /\ \E w \in {FastArrayDeltaSerializeWrite(sender,
                     IF OldState = 0 THEN NewBaseState ELSE BaseStates[OldState],
                     OldState # 0, FALSE, bSupports)} :
           /\ sender' = w.ser
           /\ BaseStates' = IF w.bNewState THEN Append(BaseStates, w.NewState) ELSE BaseStates
           /\ OldState' = IF w.bNewState THEN Len(BaseStates) + 1 ELSE OldState
           /\ Wire' = IF w.bWrote
                      THEN Append(Wire, [Delta |-> w.Delta, Items |-> w.ser.Items])
                      ELSE Wire
    /\ Codec' = [Codec EXCEPT !.bSupports = bSupports]
    /\ UNCHANGED <<receiver, NextRead, mapped, bInternalAck, Applied, LastRead>>

\* A delta written in the ordinary format is read by a receiver whose driver
\* does not support delta struct serialization.
DeliverOrdinary ==
    /\ IsUsingDeltaSerialization \notin sender.DeltaFlags
    /\ Deliver

NextFlags ==
    \/ AddItem
    \/ \E i \in 1..MaxItems : SenderMarkItemDirty(i)
    \/ \E bEnabled \in BOOLEAN : SenderSetDeltaSerializationEnabled(bEnabled)
    \/ \E bEnabled \in BOOLEAN : ReceiverSetDeltaSerializationEnabled(bEnabled)
    \/ \E bSupports \in BOOLEAN : WriteSupporting(bSupports)
    \/ DeliverOrdinary

\* A sender and a receiver whose serialization mode the application sets.
SpecFlags == InitFlags /\ [][NextFlags]_vars

\* Flags once HasBeenSerialized is set do not change.
FlagsFixed(flags, flagsAfter) == HasBeenSerialized \in flags => flagsAfter = flags

\* The step at which HasBeenSerialized is set decides IsUsingDeltaSerialization.
ModeDecided(flags, flagsAfter, bSupports) ==
    (HasBeenSerialized \notin flags /\ HasBeenSerialized \in flagsAfter) =>
        (IsUsingDeltaSerialization \in flagsAfter
            <=> (HasDeltaBeenRequested \in flags /\ bSupports))

FlagsConsistent(flags) ==
    IsUsingDeltaSerialization \in flags =>
        (HasBeenSerialized \in flags /\ HasDeltaBeenRequested \in flags)

\* C34: once HasBeenSerialized is set DeltaFlags do not change (a call of
\* SetDeltaSerializationEnabled included); the step that sets it sets
\* IsUsingDeltaSerialization exactly when delta serialization was requested
\* before the step and the caller supports it; and in every state
\* IsUsingDeltaSerialization implies HasBeenSerialized and
\* HasDeltaBeenRequested.
C34_ModeFixedAtFirstUse ==
    /\ [][/\ FlagsFixed(sender.DeltaFlags, sender'.DeltaFlags)
          /\ FlagsFixed(receiver.DeltaFlags, receiver'.DeltaFlags)
          /\ ModeDecided(sender.DeltaFlags, sender'.DeltaFlags, Codec'.bSupports)
          /\ ModeDecided(receiver.DeltaFlags, receiver'.DeltaFlags, FALSE)]_vars
    /\ [](FlagsConsistent(sender.DeltaFlags) /\ FlagsConsistent(receiver.DeltaFlags))

\* The sender uses delta serialization and SetDeltaSerializationEnabled was
\* called on a collection already serialized.
C34_Witness ==
    /\ IsUsingDeltaSerialization \in sender.DeltaFlags
    /\ Codec.bSetAfter

\* A sender that requested delta serialization was first written by a caller
\* that does not support it, and was written again by one that does.
C34_UnsupportedWitness ==
    /\ sender.DeltaFlags = {HasBeenSerialized, HasDeltaBeenRequested}
    /\ Codec.bSupports
    /\ Len(Wire) = 2

\* ------------------------------------------------- a reference goes away

\* MoveGuidToUnmapped that leaves the identifier in MappedDynamicGUIDs.
MoveGuidToUnmappedKeepsMapped(ser, GUID) ==
    LET ser0 == ConditionalRebuildItemMap(ser)
    IN  [ser |-> [ser0 EXCEPT !.GuidReferencesMap =
                     [k \in DOMAIN @ |->
                         IF GUID \in @[k].MappedDynamicGUIDs
                         THEN [@[k] EXCEPT !.UnmappedGUIDs = @ \cup {GUID}]
                         ELSE @[k]]],
         bFound |-> \E k \in DOMAIN ser0.GuidReferencesMap :
                        GUID \in ser0.GuidReferencesMap[k].MappedDynamicGUIDs]

\* FastArrayDeltaSerialize with Parms.MoveGuidToUnmapped pointing at GUID.
MoveGuidToUnmapped(ser, GUID) ==
    LET ser0 == ConditionalRebuildItemMap(ser)
    IN  [ser |-> [ser0 EXCEPT !.GuidReferencesMap =
                     [k \in DOMAIN @ |->
                         IF GUID \in @[k].MappedDynamicGUIDs
                         THEN [@[k] EXCEPT !.MappedDynamicGUIDs = @ \ {GUID},
                                           !.UnmappedGUIDs = @ \cup {GUID}]
                         ELSE @[k]]],
         bFound |-> \E k \in DOMAIN ser0.GuidReferencesMap :
                        GUID \in ser0.GuidReferencesMap[k].MappedDynamicGUIDs]

\* No call of MoveGuidToUnmapped yet.
NoMove == [Phase |-> "none", bFound |-> FALSE]

InitUnmap ==
    /\ sender = NewSerializer
    /\ BaseStates = <<>>
    /\ OldState = 0
    /\ Wire = <<>>
    /\ receiver = NewSerializer
    /\ NextRead = 1
    /\ mapped = {}
    /\ bInternalAck = FALSE
    /\ LastRead = NoRead
    /\ Applied = {}
    /\ Codec = NoMove

\* The object of g goes away (its actor channel closes) and the driver calls
\* FastArrayDeltaSerialize with MoveGuidToUnmapped; Codec keeps what the call
\* returned.
UnmapGuid(g) ==
    /\ g \in mapped
    /\ mapped' = mapped \ {g}
    /\ \E r \in {MoveGuidToUnmapped(receiver, g)} :
           /\ receiver' = r.ser
           /\ Codec' = [Phase |-> "moved", bFound |-> r.bFound]
    /\ UNCHANGED <<sender, BaseStates, OldState, Wire, NextRead, bInternalAck, Applied, LastRead>>

NextUnmap ==
    \/ ReadPoll
    \/ \E g \in NetworkGUIDs : MapGuid(g)
    \/ \E broken \in {{}} \cup {{g} : g \in NetworkGUIDs \ mapped} : Poll(broken)
    \/ \E g \in NetworkGUIDs : UnmapGuid(g)

\* A receiver whose references become resolvable and unresolvable again.
SpecUnmap == InitUnmap /\ [][NextUnmap]_vars

\* The step is a call of MoveGuidToUnmapped; MovedGuid is its argument.
IsMoveGuidToUnmapped == mapped' # mapped /\ mapped' \subseteq mapped
MovedGuid == CHOOSE g \in mapped \ mapped' : TRUE

\* C35: MoveGuidToUnmapped(g) moves g from the resolved-dynamic set to the
\* unresolved set in every deferred entry that holds it as resolved-dynamic
\* and returns true exactly when there is such an entry; the other entries,
\* the captured buffers, the records and ArrayReplicationKey are unchanged,
\* and the two sets of every entry are disjoint afterwards.
C35_MoveGuidToUnmapped ==
    [][IsMoveGuidToUnmapped =>
          /\ DOMAIN receiver'.GuidReferencesMap = DOMAIN receiver.GuidReferencesMap
          /\ \A k \in DOMAIN receiver.GuidReferencesMap :
                 LET e == receiver.GuidReferencesMap[k]
                     after == receiver'.GuidReferencesMap[k]
                 IN  /\ MovedGuid \in e.MappedDynamicGUIDs =>
                            /\ after.MappedDynamicGUIDs = e.MappedDynamicGUIDs \ {MovedGuid}
                            /\ after.UnmappedGUIDs = e.UnmappedGUIDs \cup {MovedGuid}
                     /\ MovedGuid \notin e.MappedDynamicGUIDs => after = e
                     /\ after.Buffer = e.Buffer
                     /\ after.UnmappedGUIDs \cap after.MappedDynamicGUIDs = {}
          /\ Codec'.bFound <=> \E k \in DOMAIN receiver.GuidReferencesMap :
                                   MovedGuid \in receiver.GuidReferencesMap[k].MappedDynamicGUIDs
          /\ receiver'.Items = receiver.Items
          /\ receiver'.ArrayReplicationKey = receiver.ArrayReplicationKey]_vars

\* The call found the identifier, which is resolvable no more: an entry
\* holds it as unresolved and not as resolved-dynamic.
C35_Witness ==
    /\ Codec.Phase = "moved"
    /\ Codec.bFound
    /\ \E k \in DOMAIN receiver.GuidReferencesMap :
           /\ "dyn" \in receiver.GuidReferencesMap[k].UnmappedGUIDs
           /\ "dyn" \notin receiver.GuidReferencesMap[k].MappedDynamicGUIDs
    /\ "dyn" \notin mapped

\* The call was made for an identifier no entry holds as resolved-dynamic and
\* returned false, with a deferred entry in the map.
C35_NotFoundWitness ==
    /\ Codec.Phase = "moved"
    /\ ~Codec.bFound
    /\ MapNum(receiver.GuidReferencesMap) > 0

\* ----------------------------------------------------- deltas that get lost

InitLoss ==
    /\ sender = NewSerializer
    /\ BaseStates = <<>>
    /\ OldState = 0
    /\ Wire = <<>>
    /\ receiver = NewSerializer
    /\ NextRead = 1
    /\ mapped = {}
    /\ bInternalAck = FALSE
    /\ LastRead = NoRead
    /\ Applied = {}
    /\ Codec = NoCodec

\* Application code appends a record and calls MarkItemDirty on it.
AddMarked ==
    /\ Len(sender.Items) < MaxLossItems
    /\ sender.ArrayReplicationKey < MaxLossKey
    /\ sender' = MarkItemDirty([sender EXCEPT !.Items = Append(sender.Items, NewItem)],
                               Len(sender.Items) + 1)
    /\ UNCHANGED <<BaseStates, OldState, Wire, receiver, NextRead, mapped, bInternalAck, Applied, Codec, LastRead>>

\* Application code calls MarkItemDirty on a record it changed.
ChangeMarked(i) ==
    /\ i \in 1..Len(sender.Items)
    /\ sender.ArrayReplicationKey < MaxLossKey
    /\ sender' = MarkItemDirty(sender, i)
    /\ UNCHANGED <<BaseStates, OldState, Wire, receiver, NextRead, mapped, bInternalAck, Applied, Codec, LastRead>>

\* Application code removes Items[i] and calls MarkArrayDirty.
RemoveMarked(i) ==
    /\ i \in 1..Len(sender.Items)
    /\ sender.ArrayReplicationKey < MaxLossKey
    /\ sender' = MarkArrayDirty([sender EXCEPT !.Items = RemoveAt(sender.Items, i)])
    /\ UNCHANGED <<BaseStates, OldState, Wire, receiver, NextRead, mapped, bInternalAck, Applied, Codec, LastRead>>

\* The driver writes against no base state, or against a base state handed
\* back by a write whose delta the receiver has applied.
WriteAcked(o) ==
    /\ Len(Wire) < MaxLossWrites
    /\ o = 0 \/ \E k \in Applied : Wire[k].State = o
    /\ \E w \in {WriteFastArray(sender,
                               IF o = 0 THEN NewBaseState ELSE BaseStates[o],
                               o # 0, FALSE)} :
       \E p \in {Publish(BaseStates, o, w)} :
           /\ sender' = w.ser
           /\ BaseStates' = p.States
           /\ OldState' = p.Handed
           /\ Wire' = IF w.bWrote
                      THEN Append(Wire, [Delta |-> w.Delta, Items |-> w.ser.Items,
                                         State |-> p.Handed])
                      ELSE Wire
    /\ UNCHANGED <<receiver, NextRead, mapped, bInternalAck, Applied, Codec, LastRead>>

\* A delta written after every delta applied so far arrives and is read; the
\* deltas skipped are lost.
DeliverLater(k) ==
    /\ \A j \in Applied : j < k
    /\ DeliverAny(k)

NextLoss ==
    \/ AddMarked
    \/ \E i \in 1..MaxLossItems : ChangeMarked(i)
    \/ \E i \in 1..MaxLossItems : RemoveMarked(i)
    \/ \E o \in 0..MaxLossWrites : WriteAcked(o)
    \/ \E k \in 1..MaxLossWrites : DeliverLater(k)

\* A sender whose additions, changes and removals are all marked and whose
\* deltas may be lost.
SpecLoss == InitLoss /\ [][NextLoss]_vars

\* The delta applied last.
LastApplied == CHOOSE k \in Applied : \A j \in Applied : j <= k

\* The receiver holds the ids the sender held when the delta applied last was
\* written, one record each.
Converged ==
    Applied # {} =>
        /\ ItemIds(receiver.Items) = ItemIds(Wire[LastApplied].Items)
        /\ Len(receiver.Items) = Len(Wire[LastApplied].Items)

\* C36: with every addition marked, deltas applied in the order written and
\* written against no base state or one whose delta was applied, the receiver
\* holds after each applied delta the ids the sender held when that delta was
\* written.
C36_Convergence == Converged

\* Three deltas were applied in the order written, none named a deleted id,
\* the sender held two records when the last was written, and the receiver
\* is left with one: the read removed a record the sender still has.
C36_Witness ==
    /\ Applied = {1, 2, 3}
    /\ \A k \in 1..3 : Wire[k].Delta.Deleted = <<>>
    /\ Len(Wire[3].Items) = 2
    /\ Len(receiver.Items) = 1
    /\ \E n \in 1..Len(LastRead.Log) : LastRead.Log[n].what = "Items.RemoveAtSwap"

\* A record the receiver had was removed on the sender; the delta written
\* then was lost, and a later delta, which names no deleted id, was applied
\* and removed the record.
C36_LostRemovalWitness ==
    /\ Applied = {1, 3}
    /\ Len(Wire) = 3
    /\ Wire[3].Delta.Deleted = <<>>
    /\ \E n \in 1..Len(LastRead.Log) : LastRead.Log[n].what = "Items.RemoveAtSwap"
    /\ Converged

\* No record of the receiver was last received in a delta that d neither
\* builds on nor is.
NoImplicitDelete(d) ==
    \A i \in 1..Len(receiver.Items) :
        ~(/\ receiver.Items[i].MostRecentArrayReplicationKey < d.ArrayReplicationKey
          /\ receiver.Items[i].MostRecentArrayReplicationKey > d.BaseReplicationKey)

\* The deltas that name no deleted id and carry no changed entry.
EmptyDeltas ==
    {[ArrayReplicationKey |-> h.ArrayReplicationKey,
      BaseReplicationKey |-> h.BaseReplicationKey,
      Deleted |-> <<>>, Changed |-> <<>>] : h \in WireHeaders}

\* C38: the read of a delta with no changed entry and no deleted id, when no
\* record qualifies as an implicit delete, leaves Items (records, order,
\* ReplicationID, ReplicationKey, MostRecentArrayReplicationKey),
\* ArrayReplicationKey and the deferred-reference map as they were.
C38_EmptyDeltaNoOp ==
    [][\A d \in EmptyDeltas :
           (/\ LastRead'.Count = LastRead.Count + 1
            /\ LastRead'.NumChanged = 0
            /\ LastRead'.NumDeleted = 0
            /\ LastRead'.ArrayReplicationKey = d.ArrayReplicationKey
            /\ LastRead'.BaseReplicationKey = d.BaseReplicationKey
            /\ NoImplicitDelete(d)
            /\ IsReadOf(d)) =>
               /\ receiver'.Items = receiver.Items
               /\ receiver'.ArrayReplicationKey = receiver.ArrayReplicationKey
               /\ receiver'.GuidReferencesMap = receiver.GuidReferencesMap]_vars

\* An empty delta building on the key the receiver's records were received
\* with was read by a receiver that holds two records and a deferred
\* reference; nothing was called back for a record or removed.
C38_Witness ==
    /\ LastRead.Count = 1
    /\ LastRead.bResult
    /\ LastRead.NumChanged = 0
    /\ LastRead.NumDeleted = 0
    /\ LastRead.ArrayReplicationKey = 2
    /\ LastRead.BaseReplicationKey = 1
    /\ Len(receiver.Items) = 2
    /\ \A i \in 1..2 : receiver.Items[i].MostRecentArrayReplicationKey = 1
    /\ MapNum(receiver.GuidReferencesMap) = 1
    /\ receiver.ArrayReplicationKey = 1
    /\ Len(LastRead.Log) = 3

\* ------------------------------------------------- two base states compared

\* FNetFastTArrayBaseState::IsStateEqual, called on This with Other.
IsStateEqual(This, Other) ==
    \A n \in 1..Len(This.IDToCLMap) :
        LET Ptr == PairsFind(Other.IDToCLMap, This.IDToCLMap[n].ID)
        IN  ~(Ptr = 0 \/ Other.IDToCLMap[Ptr].Key # This.IDToCLMap[n].Key)

InitEqual ==
    /\ sender = NewSerializer
    /\ BaseStates = <<>>
    /\ OldState = 0
    /\ Wire = <<>>
    /\ receiver = NewSerializer
    /\ NextRead = 1
    /\ mapped = {}
    /\ bInternalAck = FALSE
    /\ LastRead = NoRead
    /\ Applied = {}
    /\ \E A, B \in OldBaseStates \cup {NewBaseState} :
           Codec = [Phase |-> "states", A |-> A, B |-> B, AB |-> FALSE, BA |-> FALSE]

\* The driver compares the two states, each way round.
CompareStates ==
    /\ Codec.Phase = "states"
    /\ Codec' = [Codec EXCEPT !.Phase = "compared",
                              !.AB = IsStateEqual(Codec.A, Codec.B),
                              !.BA = IsStateEqual(Codec.B, Codec.A)]
    /\ UNCHANGED <<sender, BaseStates, OldState, Wire, receiver, NextRead, mapped, bInternalAck, Applied, LastRead>>

NextEqual == CompareStates

\* Two base states, any id-to-key maps, compared.
SpecEqual == InitEqual /\ [][NextEqual]_vars

\* The id-to-key mapping a base state holds.
Mapping(State) == {State.IDToCLMap[n] : n \in 1..Len(State.IDToCLMap)}

\* C39: A.IsStateEqual(B) is true exactly when A and B hold the same
\* id-to-key mapping, and so A.IsStateEqual(B) = B.IsStateEqual(A).
C39_IsStateEqual ==
    Codec.Phase = "compared" =>
        /\ Codec.AB <=> Mapping(Codec.A) = Mapping(Codec.B)
        /\ Codec.AB <=> Codec.BA

\* What the comparison computes: every pair of A is a pair of B.
C39_IsStateEqualInclusion ==
    Codec.Phase = "compared" =>
        (Codec.AB <=> Mapping(Codec.A) \subseteq Mapping(Codec.B))

\* A state with one pair compared with a state holding that pair and another:
\* equal one way round, not equal the other.
C39_Witness ==
    /\ Codec.Phase = "compared"
    /\ Len(Codec.A.IDToCLMap) = 1
    /\ Len(Codec.B.IDToCLMap) = 2
    /\ Codec.AB
    /\ ~Codec.BA

\* C40: ArrayReplicationKey is never INDEX_NONE, on the near side of the
\* 32-bit wrap or past it: not in the collection, not in a header written,
\* not in a base state handed back; a delta written without a base state
\* (base key INDEX_NONE) therefore never carries equal keys.
C40_KeyNeverSentinel ==
    /\ sender.ArrayReplicationKey # INDEX_NONE
    /\ \A k \in 1..Len(Wire) :
           /\ Wire[k].Delta.ArrayReplicationKey # INDEX_NONE
           /\ Wire[k].Delta.BaseReplicationKey = INDEX_NONE =>
                  Wire[k].Delta.ArrayReplicationKey # Wire[k].Delta.BaseReplicationKey
    /\ \A o \in 1..Len(BaseStates) : BaseStates[o].ArrayReplicationKey # INDEX_NONE

\* A collection whose key was one increment short of INDEX_NONE was marked
\* once and written without a base state: the key has stepped over INDEX_NONE
\* to 0.
C40_Witness ==
    /\ sender.ArrayReplicationKey = 0
    /\ \E i \in 1..Len(sender.Items) : sender.Items[i].ReplicationKey # NewItem.ReplicationKey
    /\ Len(Wire) = 1
    /\ Wire[1].Delta.BaseReplicationKey = INDEX_NONE
    /\ Wire[1].Delta.ArrayReplicationKey = 0

\* A collection at that key read a delta with a changed record: its key
\* stepped over INDEX_NONE.
C40_ReadWitness ==
    /\ LastRead.Count = 1
    /\ LastRead.NumChanged > 0
    /\ Len(sender.Items) > 0
    /\ sender.IDCounter = 0
    /\ sender.ArrayReplicationKey = 0

====
